---- MODULE Spec2Model ----
(***************************************************************************)
(* A model of the smart-load optimization engine: the constraint checker,  *)
(* the four optimizers (bitmask DP, backtracking, greedy, hybrid), and the *)
(* orchestrating service (OptimizeLoad, optimizeWithWeights,               *)
(* GetParetoOptimalSolutions, filterParetoOptimal).                        *)
(*                                                                         *)
(* Go slices are modelled as sequences; a Go index i is position i+1.      *)
(* float64 arithmetic is modelled operation by operation on mantissa and   *)
(* exponent, with the rounding of the hardware; percentages and scores are *)
(* held in hundredths.                                                     *)
(***************************************************************************)
EXTENDS Integers, Sequences, FiniteSets, TLC

(***************************************************************************)
(* Bounds of the model.                                                    *)
(***************************************************************************)
MaxOrders == 2
\* the largest count passed to GetParetoOptimalSolutions
MaxSolutionsArg == 5

\* payouts are in cents
PayoutValues == {1000, 2000}
OrderWeights == {1, 2}
OrderVolumes == {1, 2}
\* <<MaxWeightLbs, MaxVolumeCuft>> of the trucks
TruckCapacities == {<<1, 2>>, <<2, 2>>, <<2, 4>>, <<4, 4>>}
Origins == {"A", "B"}
Destinations == {"C"}

OrderIDs == <<"o1", "o2", "o3", "o4", "o5", "o6", "o7", "o8", "o9", "o10", "o11",
             "o12", "o13", "o14", "o15", "o16", "o17", "o18", "o19", "o20", "o21",
             "o22", "o23", "o24">>

Trucks == {[ID |-> "t1", MaxWeightLbs |-> c[1], MaxVolumeCuft |-> c[2]] : c \in TruckCapacities}

\* the attributes of an order, its identifier left out; the hazmat orders all
\* leave from origin "A", which gives three classes of combinable orders
OrderBodies ==
    {b \in [Payout : PayoutValues, WeightLbs : OrderWeights,
            VolumeCuft : OrderVolumes, Origin : Origins,
            Destination : Destinations, IsHazmat : BOOLEAN] :
        b.IsHazmat => b.Origin = "A"}

\* the dates of the orders of the input domain, as the texts of the request:
\* one character per element
DefaultPickupDate == <<"2", "0", "2", "5", "-", "1", "2", "-", "0", "5">>
DefaultDeliveryDate == <<"2", "0", "2", "5", "-", "1", "2", "-", "0", "9">>

MkOrder(id, b) ==
    [ID |-> id, Payout |-> b.Payout, WeightLbs |-> b.WeightLbs,
     VolumeCuft |-> b.VolumeCuft, Origin |-> b.Origin,
     Destination |-> b.Destination, IsHazmat |-> b.IsHazmat,
     PickupDate |-> DefaultPickupDate, DeliveryDate |-> DefaultDeliveryDate]

\* order lists with pairwise distinct identifiers (OptimizeRequest.Validate)
OrderListsOver(bodies) ==
    UNION {{[i \in 1..n |-> MkOrder(OrderIDs[i], bs[i])] : bs \in [1..n -> bodies]}
           : n \in 0..MaxOrders}

OrderLists == OrderListsOver(OrderBodies)

\* the order lists of the service runs: one origin, and one hazardous body,
\* the smallest and best paid, which conflicts with every other body
ServiceOrderBodies ==
    {b \in [Payout : PayoutValues, WeightLbs : OrderWeights,
            VolumeCuft : OrderVolumes, Origin : {"A"},
            Destination : Destinations, IsHazmat : BOOLEAN] :
        b.IsHazmat => b.Payout = 2000 /\ b.WeightLbs = 1 /\ b.VolumeCuft = 1}

ServiceOrderLists == OrderListsOver(ServiceOrderBodies)

(***************************************************************************)
(* Generic helpers.                                                        *)
(***************************************************************************)
Max2(a, b) == IF a >= b THEN a ELSE b

RECURSIVE SumPayout(_)
SumPayout(s) == IF s = <<>> THEN 0 ELSE Head(s).Payout + SumPayout(Tail(s))

RECURSIVE SumWeight(_)
SumWeight(s) == IF s = <<>> THEN 0 ELSE Head(s).WeightLbs + SumWeight(Tail(s))

RECURSIVE SumVolume(_)
SumVolume(s) == IF s = <<>> THEN 0 ELSE Head(s).VolumeCuft + SumVolume(Tail(s))

\* bit i of mask: (mask & (1 << i)) != 0
HasBit(mask, i) == (mask \div (2 ^ i)) % 2 = 1

RECURSIVE BitAnd(_, _)
BitAnd(a, b) ==
    IF a = 0 \/ b = 0 THEN 0
    ELSE (a % 2) * (b % 2) + 2 * BitAnd(a \div 2, b \div 2)

RECURSIVE BitOr(_, _)
BitOr(a, b) ==
    IF a = 0 THEN b
    ELSE IF b = 0 THEN a
    ELSE Max2(a % 2, b % 2) + 2 * BitOr(a \div 2, b \div 2)

(***************************************************************************)
(* domain: Order.Route and the default constraint checker.                 *)
(***************************************************************************)
Route(o) == o.Origin \o "->" \o o.Destination

timeWindowsCompatible(order1, order2) == TRUE

CanCombine(order1, order2) ==
    IF Route(order1) # Route(order2) THEN FALSE
    ELSE IF order1.IsHazmat # order2.IsHazmat THEN FALSE
    ELSE IF ~timeWindowsCompatible(order1, order2) THEN FALSE
    ELSE TRUE

\* a fit test that forgets the volume
CanFitWeightOnly(truck, currentWeight, currentVolume, order) ==
    currentWeight + order.WeightLbs <= truck.MaxWeightLbs

CanFit(truck, currentWeight, currentVolume, order) ==
    LET newWeight == currentWeight + order.WeightLbs
        newVolume == currentVolume + order.VolumeCuft
    IN  newWeight <= truck.MaxWeightLbs /\ newVolume <= truck.MaxVolumeCuft

ValidateOrderSet(os) ==
    \A i \in 1..Len(os) : \A j \in (i + 1)..Len(os) : CanCombine(os[i], os[j])

FilterFeasibleOrders(truck, os) ==
    SelectSeq(os, LAMBDA o : ~(o.WeightLbs > truck.MaxWeightLbs
                               \/ o.VolumeCuft > truck.MaxVolumeCuft))

(***************************************************************************)
(* algorithm: OptimizationResult (ComputeTimeMs left out).                 *)
(***************************************************************************)
OptimizationResult(sel, payout, weight, volume) ==
    [SelectedOrders |-> sel, TotalPayout |-> payout,
     TotalWeight |-> weight, TotalVolume |-> volume]

EmptyResult == OptimizationResult(<<>>, 0, 0, 0)

(***************************************************************************)
(* algorithm: DPOptimizer.  The four flat arrays of the source are the     *)
(* four fields of the table; masks are the integers 0 .. 2^n - 1.          *)
(***************************************************************************)
\* incompatibleMask[i] of the source, for Go index i
IncompatibleBits(os, i) ==
    {j \in 0..(Len(os) - 1) : i # j /\ ~CanCombine(os[i + 1], os[j + 1])}

RECURSIVE SumPow2(_)
SumPow2(S) ==
    IF S = {} THEN 0
    ELSE LET j == CHOOSE x \in S : TRUE IN (2 ^ j) + SumPow2(S \ {j})

\* masks that record no incompatibility
incompatibleMaskNone(os) == [i \in 0..(Len(os) - 1) |-> 0]

incompatibleMask(os) == [i \in 0..(Len(os) - 1) |-> SumPow2(IncompatibleBits(os, i))]

DPInitTable(n) ==
    [dpPayout |-> [m \in 0..((2 ^ n) - 1) |-> 0],
     dpWeight |-> [m \in 0..((2 ^ n) - 1) |-> 0],
     dpVolume |-> [m \in 0..((2 ^ n) - 1) |-> 0],
     dpValid  |-> [m \in 0..((2 ^ n) - 1) |-> m = 0]]

\* an inner loop body that does not skip the orders already in mask
DPInnerNoMemberTest(truck, os, inc, tbl, mask, i) ==
    IF BitAnd(mask, inc[i]) # 0 THEN tbl
    ELSE
        LET order == os[i + 1]
            newWeight == tbl.dpWeight[mask] + order.WeightLbs
            newVolume == tbl.dpVolume[mask] + order.VolumeCuft
            newMask == BitOr(mask, 2 ^ i)
            newPayout == tbl.dpPayout[mask] + order.Payout
        IN  IF newWeight > truck.MaxWeightLbs \/ newVolume > truck.MaxVolumeCuft
            THEN tbl
            ELSE IF ~tbl.dpValid[newMask] \/ newPayout > tbl.dpPayout[newMask]
            THEN [dpPayout |-> [tbl.dpPayout EXCEPT ![newMask] = newPayout],
                  dpWeight |-> [tbl.dpWeight EXCEPT ![newMask] = newWeight],
                  dpVolume |-> [tbl.dpVolume EXCEPT ![newMask] = newVolume],
                  dpValid  |-> [tbl.dpValid EXCEPT ![newMask] = TRUE]]
            ELSE tbl

\* the body of the inner loop for one (mask, i), mask being reachable
DPInner(truck, os, inc, tbl, mask, i) ==
    IF HasBit(mask, i) THEN tbl
    ELSE IF BitAnd(mask, inc[i]) # 0 THEN tbl
    ELSE
        LET order == os[i + 1]
            newWeight == tbl.dpWeight[mask] + order.WeightLbs
            newVolume == tbl.dpVolume[mask] + order.VolumeCuft
            newMask == BitOr(mask, 2 ^ i)
            newPayout == tbl.dpPayout[mask] + order.Payout
        IN  IF newWeight > truck.MaxWeightLbs \/ newVolume > truck.MaxVolumeCuft
            THEN tbl
            ELSE IF ~tbl.dpValid[newMask] \/ newPayout > tbl.dpPayout[newMask]
            THEN [dpPayout |-> [tbl.dpPayout EXCEPT ![newMask] = newPayout],
                  dpWeight |-> [tbl.dpWeight EXCEPT ![newMask] = newWeight],
                  dpVolume |-> [tbl.dpVolume EXCEPT ![newMask] = newVolume],
                  dpValid  |-> [tbl.dpValid EXCEPT ![newMask] = TRUE]]
            ELSE tbl

\* the sweep from (mask, i) on: masks in increasing order, i in 0 .. n-1
RECURSIVE DPSweep(_, _, _, _, _, _)
DPSweep(truck, os, inc, tbl, mask, i) ==
    IF mask >= 2 ^ Len(os) THEN tbl
    ELSE IF ~tbl.dpValid[mask] THEN DPSweep(truck, os, inc, tbl, mask + 1, 0)
    ELSE IF i >= Len(os) THEN DPSweep(truck, os, inc, tbl, mask + 1, 0)
    ELSE DPSweep(truck, os, inc, DPInner(truck, os, inc, tbl, mask, i), mask, i + 1)

DPTable(truck, os) ==
    DPSweep(truck, os, incompatibleMask(os), DPInitTable(Len(os)), 0, 0)

\* a scan that reads the entry of the full mask only
DPBestFullMask(tbl, n, mask, best) ==
    IF tbl.dpValid[(2 ^ n) - 1] THEN <<tbl.dpPayout[(2 ^ n) - 1], (2 ^ n) - 1>> ELSE best

\* a scan that moves to a later mask of equal payout
RECURSIVE DPBestLastMax(_, _, _, _)
DPBestLastMax(tbl, n, mask, best) ==
    IF mask >= 2 ^ n THEN best
    ELSE IF tbl.dpValid[mask] /\ tbl.dpPayout[mask] >= best[1]
    THEN DPBestLastMax(tbl, n, mask + 1, <<tbl.dpPayout[mask], mask>>)
    ELSE DPBestLastMax(tbl, n, mask + 1, best)

\* the scan for the best mask: best is <<bestPayout, bestMask>>
RECURSIVE DPBest(_, _, _, _)
DPBest(tbl, n, mask, best) ==
    IF mask >= 2 ^ n THEN best
    ELSE IF tbl.dpValid[mask] /\ tbl.dpPayout[mask] > best[1]
    THEN DPBest(tbl, n, mask + 1, <<tbl.dpPayout[mask], mask>>)
    ELSE DPBest(tbl, n, mask + 1, best)

\* the orders of os whose Go index is a bit of mask, from Go index i on
RECURSIVE extractFrom(_, _, _)
extractFrom(mask, os, i) ==
    IF i >= Len(os) THEN <<>>
    ELSE IF HasBit(mask, i) THEN <<os[i + 1]>> \o extractFrom(mask, os, i + 1)
    ELSE extractFrom(mask, os, i + 1)

extractOrders(mask, os) == extractFrom(mask, os, 0)

DPOptimize(truck, orders) ==
    IF Len(orders) = 0 THEN EmptyResult
    ELSE
        LET os == FilterFeasibleOrders(truck, orders) IN
        IF Len(os) = 0 THEN EmptyResult
        ELSE
            LET tbl == DPTable(truck, os)
                best == DPBest(tbl, Len(os), 0, <<0, 0>>)
                bestPayout == best[1]
                bestMask == best[2]
            IN  OptimizationResult(extractOrders(bestMask, os), bestPayout,
                                   tbl.dpWeight[bestMask], tbl.dpVolume[bestMask])

(***************************************************************************)
(* algorithm: GreedyOptimizer.                                             *)
(***************************************************************************)
\* float64(a.Payout)/float64(a.WeightLbs) > float64(b.Payout)/float64(b.WeightLbs),
\* weights being positive
DensityGreater(a, b) == a.Payout * b.WeightLbs > b.Payout * a.WeightLbs

Swap(s, i, j) == [s EXCEPT ![i] = s[j], ![j] = s[i]]

\* the inner loop of the exchange sort for the Go index i, from the Go
\* index j on
RECURSIVE SortPass(_, _, _)
SortPass(sorted, i, j) ==
    IF j >= Len(sorted) THEN sorted
    ELSE IF DensityGreater(sorted[j + 1], sorted[i + 1])
    THEN SortPass(Swap(sorted, i + 1, j + 1), i, j + 1)
    ELSE SortPass(sorted, i, j + 1)

\* the outer loop of the exchange sort, from the Go index i on
RECURSIVE SortFrom(_, _)
SortFrom(sorted, i) ==
    IF i >= Len(sorted) - 1 THEN sorted
    ELSE SortFrom(SortPass(sorted, i, i + 1), i + 1)

sortByValueDensity(os) == SortFrom(os, 0)

\* a compatibility loop that never runs
CompatibleUnchecked(order, selected) ==
    \A k \in 1..0 : CanCombine(order, selected[k])

CompatibleWithAll(order, selected) ==
    \A k \in 1..Len(selected) : CanCombine(order, selected[k])

RECURSIVE GreedyWalk(_, _, _)
GreedyWalk(truck, rest, acc) ==
    IF rest = <<>> THEN acc
    ELSE
        LET order == Head(rest) IN
        IF ~CanFit(truck, acc.TotalWeight, acc.TotalVolume, order)
        THEN GreedyWalk(truck, Tail(rest), acc)
        ELSE IF CompatibleWithAll(order, acc.SelectedOrders)
        THEN GreedyWalk(truck, Tail(rest),
                 OptimizationResult(Append(acc.SelectedOrders, order),
                                    acc.TotalPayout + order.Payout,
                                    acc.TotalWeight + order.WeightLbs,
                                    acc.TotalVolume + order.VolumeCuft))
        ELSE GreedyWalk(truck, Tail(rest), acc)

GreedyOptimize(truck, orders) ==
    GreedyWalk(truck, sortByValueDensity(FilterFeasibleOrders(truck, orders)), EmptyResult)

(***************************************************************************)
(* algorithm: BacktrackingOptimizer, one call running alone.  The fields   *)
(* bestPayout, bestOrders, bestWeight and bestVolume of the instance are   *)
(* threaded through the recursion.                                         *)
(***************************************************************************)
BTFields(payout, os, weight, volume) ==
    [bestPayout |-> payout, bestOrders |-> os, bestWeight |-> weight, bestVolume |-> volume]

\* the fields after NewBacktrackingOptimizer, and after the reset in Optimize
\* fields that still hold the payout of an earlier solve
BTStale == BTFields(1000, <<>>, 0, 0)

BTZero == BTFields(0, <<>>, 0, 0)

\* a bound that leaves the order at index out
RECURSIVE remainingPayoutAfter(_, _)
remainingPayoutAfter(os, index) ==
    IF index + 1 >= Len(os) THEN 0
    ELSE os[index + 2].Payout + remainingPayoutAfter(os, index + 1)

RECURSIVE remainingPayout(_, _)
remainingPayout(os, index) ==
    IF index >= Len(os) THEN 0
    ELSE os[index + 1].Payout + remainingPayout(os, index + 1)

RECURSIVE backtrack(_, _, _, _, _, _, _, _)
backtrack(truck, os, currentOrders, index, currentPayout, currentWeight, currentVolume, b) ==
    LET b1 == IF currentPayout > b.bestPayout
              THEN BTFields(currentPayout, currentOrders, currentWeight, currentVolume)
              ELSE b
    IN  IF index >= Len(os) THEN b1
        ELSE IF currentPayout + remainingPayout(os, index) <= b1.bestPayout THEN b1
        ELSE
            LET order == os[index + 1]
                newWeight == currentWeight + order.WeightLbs
                newVolume == currentVolume + order.VolumeCuft
                canFit == newWeight <= truck.MaxWeightLbs
                          /\ newVolume <= truck.MaxVolumeCuft
                b2 == IF canFit /\ CompatibleWithAll(order, currentOrders)
                      THEN backtrack(truck, os, Append(currentOrders, order),
                                     index + 1, currentPayout + order.Payout,
                                     newWeight, newVolume, b1)
                      ELSE b1
            IN  backtrack(truck, os, currentOrders, index + 1, currentPayout,
                          currentWeight, currentVolume, b2)

\* a reset that leaves bestPayout as the earlier solve left it
BTResetKeepsPayout(b) == [b EXCEPT !.bestOrders = <<>>, !.bestWeight = 0, !.bestVolume = 0]

\* Optimize: the four assignments that reset the fields b of the instance
BTAfterReset(b) ==
    [b EXCEPT !.bestPayout = 0, !.bestOrders = <<>>, !.bestWeight = 0, !.bestVolume = 0]

\* the fields of an instance whose fields are b when Optimize returns
BacktrackingFieldsFrom(b, truck, orders) ==
    backtrack(truck, FilterFeasibleOrders(truck, orders), <<>>, 0, 0, 0, 0, BTAfterReset(b))

\* the fields of the instance when Optimize returns
BacktrackingFields(truck, orders) ==
    backtrack(truck, FilterFeasibleOrders(truck, orders), <<>>, 0, 0, 0, 0, BTZero)

BacktrackingOptimize(truck, orders) ==
    LET b == BacktrackingFields(truck, orders)
    IN  OptimizationResult(b.bestOrders, b.bestPayout, b.bestWeight, b.bestVolume)

(***************************************************************************)
(* BacktrackingOptimizer with the slices of the source.  A slice is a      *)
(* window (arr, len, cap) on a backing array; heap is the sequence of the  *)
(* backing arrays made so far.  append writes in place while len < cap,    *)
(* so the slice it returns shares its array with the slice it was given;   *)
(* at len = cap it moves to a new array of twice the capacity.             *)
(***************************************************************************)
\* the zero value of Order, in the slots of an array not yet written
ZeroOrder ==
    [ID |-> "", Payout |-> 0, WeightLbs |-> 0, VolumeCuft |-> 0, Origin |-> "",
     Destination |-> "", IsHazmat |-> FALSE, PickupDate |-> <<>>, DeliveryDate |-> <<>>]

Slice(arr, len, cap) == [arr |-> arr, len |-> len, cap |-> cap]

\* []domain.Order{}: no elements, no capacity
EmptySlice == Slice(0, 0, 0)

\* the elements of slice s
SliceElems(heap, s) == IF s.len = 0 THEN <<>> ELSE SubSeq(heap[s.arr], 1, s.len)

\* the capacity append grows a full slice to
GrownCap(cap) == IF cap = 0 THEN 1 ELSE 2 * cap

\* append(s, x): the heap and the slice after it
SliceAppend(heap, s, x) ==
    IF s.len < s.cap
    THEN [heap |-> [heap EXCEPT ![s.arr] = [@ EXCEPT ![s.len + 1] = x]],
          slice |-> Slice(s.arr, s.len + 1, s.cap)]
    ELSE LET newArr == [i \in 1..GrownCap(s.cap) |->
                           IF i <= s.len THEN heap[s.arr][i]
                           ELSE IF i = s.len + 1 THEN x ELSE ZeroOrder]
         IN  [heap |-> Append(heap, newArr),
              slice |-> Slice(Len(heap) + 1, s.len + 1, GrownCap(s.cap))]

\* bestOrders set to the current slice itself, with no copy
MakeCopyShared(heap, s) == [heap |-> heap, slice |-> s]

\* make([]domain.Order, len(s)) and copy: a new array with the elements of s
MakeCopy(heap, s) ==
    [heap |-> Append(heap, SliceElems(heap, s)),
     slice |-> Slice(Len(heap) + 1, s.len, s.len)]

\* backtrack on slices: st holds the fields b of the instance, bestOrders
\* being a slice, and the heap
RECURSIVE backtrackSlices(_, _, _, _, _, _, _, _)
backtrackSlices(truck, os, currentOrders, index, currentPayout, currentWeight, currentVolume, st) ==
    LET cp == MakeCopy(st.heap, currentOrders)
        st1 == IF currentPayout > st.b.bestPayout
               THEN [b |-> BTFields(currentPayout, cp.slice, currentWeight, currentVolume),
                     heap |-> cp.heap]
               ELSE st
    IN  IF index >= Len(os) THEN st1
        ELSE IF currentPayout + remainingPayout(os, index) <= st1.b.bestPayout THEN st1
        ELSE
            LET order == os[index + 1]
                newWeight == currentWeight + order.WeightLbs
                newVolume == currentVolume + order.VolumeCuft
                canFit == newWeight <= truck.MaxWeightLbs
                          /\ newVolume <= truck.MaxVolumeCuft
                ap == SliceAppend(st1.heap, currentOrders, order)
                st2 == IF canFit /\ CompatibleWithAll(order, SliceElems(st1.heap, currentOrders))
                       THEN backtrackSlices(truck, os, ap.slice, index + 1,
                                            currentPayout + order.Payout,
                                            newWeight, newVolume,
                                            [b |-> st1.b, heap |-> ap.heap])
                       ELSE st1
            IN  backtrackSlices(truck, os, currentOrders, index + 1, currentPayout,
                                currentWeight, currentVolume, st2)

\* Optimize: filter, reset (bestOrders an empty slice), backtrack, and the
\* result read from the fields when backtrack has returned
BacktrackingOptimizeSlices(truck, orders) ==
    LET st == backtrackSlices(truck, FilterFeasibleOrders(truck, orders), EmptySlice,
                              0, 0, 0, 0,
                              [b |-> BTFields(0, EmptySlice, 0, 0), heap |-> <<>>])
    IN  OptimizationResult(SliceElems(st.heap, st.b.bestOrders), st.b.bestPayout,
                           st.b.bestWeight, st.b.bestVolume)

(***************************************************************************)
(* algorithm: HybridOptimizer.                                             *)
(***************************************************************************)
maxDPSize == 22

\* a dispatcher whose bound is exclusive
HybridBelowBound(truck, orders) ==
    IF Len(orders) < maxDPSize THEN DPOptimize(truck, orders)
    ELSE GreedyOptimize(truck, orders)

HybridOptimize(truck, orders) ==
    IF Len(orders) <= maxDPSize THEN DPOptimize(truck, orders)
    ELSE GreedyOptimize(truck, orders)

OptimizerOps == {"dp", "backtracking", "greedy", "hybrid"}

\* dispatch on the kind of an optimizer instance
Optimize(kind, truck, orders) ==
    CASE kind = "dp" -> DPOptimize(truck, orders)
      [] kind = "backtracking" -> BacktrackingOptimize(truck, orders)
      [] kind = "greedy" -> GreedyOptimize(truck, orders)
      [] kind = "hybrid" -> HybridOptimize(truck, orders)

(***************************************************************************)
(* domain: request validation.  A weight w of a configuration is held in   *)
(* tenths (RevenueWeight = 8 stands for 0.8).  NoConfig is the nil         *)
(* OptimizationConfig.                                                     *)
(***************************************************************************)
NoConfig == [Algorithm |-> "nil"]

OptimizationConfig(objective, rw, uw, algorithm) ==
    [Objective |-> objective, RevenueWeight |-> rw,
     UtilizationWeight |-> uw, Algorithm |-> algorithm]

ValidObjectives == {"revenue", "utilization", "balanced"}
ValidAlgorithms == {"dp", "backtracking", "greedy", "auto"}

\* OptimizationConfig.Validate: the error it returns, or "" for none
ConfigError(c) ==
    LET objective == IF c.Objective = "" THEN "revenue" ELSE c.Objective
        algorithm == IF c.Algorithm = "" THEN "auto" ELSE c.Algorithm
    IN  IF objective \notin ValidObjectives THEN "invalid objective"
        ELSE IF c.RevenueWeight < 0 \/ c.RevenueWeight > 10
        THEN "revenue_weight must be between 0 and 1"
        ELSE IF c.UtilizationWeight < 0 \/ c.UtilizationWeight > 10
        THEN "utilization_weight must be between 0 and 1"
        ELSE IF algorithm \notin ValidAlgorithms THEN "invalid algorithm"
        ELSE ""

\* OptimizationConfig.Validate: the configuration as it leaves Validate.
\* Validate writes through its pointer receiver: the objective is defaulted
\* before the first test, the weights and the algorithm after the tests of
\* the weights, so a configuration that fails keeps what was written before
\* the failing test.
ConfigDefaulted(c) ==
    LET objective == IF c.Objective = "" THEN "revenue" ELSE c.Objective
        algorithm == IF c.Algorithm = "" THEN "auto" ELSE c.Algorithm
        zero == c.RevenueWeight = 0 /\ c.UtilizationWeight = 0
        rw == IF ~zero THEN c.RevenueWeight
              ELSE CASE objective = "revenue" -> 10
                     [] objective = "utilization" -> 0
                     [] objective = "balanced" -> 5
        uw == IF ~zero THEN c.UtilizationWeight
              ELSE CASE objective = "revenue" -> 0
                     [] objective = "utilization" -> 10
                     [] objective = "balanced" -> 5
    IN  IF \/ objective \notin ValidObjectives
           \/ c.RevenueWeight < 0 \/ c.RevenueWeight > 10
           \/ c.UtilizationWeight < 0 \/ c.UtilizationWeight > 10
        THEN [c EXCEPT !.Objective = objective]
        ELSE OptimizationConfig(objective, rw, uw, algorithm)

\* time.Parse with the layout "2006-01-02" on a text of one character per
\* element: four digits, "-", two digits, "-", two digits and nothing after,
\* a month of 1..12 and a day of the month
DigitChars == <<"0", "1", "2", "3", "4", "5", "6", "7", "8", "9">>

IsDigit(ch) == \E d \in 1..10 : DigitChars[d] = ch

DigitValue(ch) == (CHOOSE d \in 1..10 : DigitChars[d] = ch) - 1

IsLeapYear(y) == y % 4 = 0 /\ (y % 100 # 0 \/ y % 400 = 0)

DaysIn(m, y) ==
    IF m = 2 THEN (IF IsLeapYear(y) THEN 29 ELSE 28)
    ELSE IF m \in {4, 6, 9, 11} THEN 30 ELSE 31

NoDate == [ok |-> FALSE, year |-> 0, month |-> 0, day |-> 0]

ParseDate(text) ==
    IF \/ Len(text) # 10
       \/ \E i \in {1, 2, 3, 4, 6, 7, 9, 10} : ~IsDigit(text[i])
       \/ text[5] # "-"
       \/ text[8] # "-"
    THEN NoDate
    ELSE LET y == 1000 * DigitValue(text[1]) + 100 * DigitValue(text[2])
                  + 10 * DigitValue(text[3]) + DigitValue(text[4])
             m == 10 * DigitValue(text[6]) + DigitValue(text[7])
             d == 10 * DigitValue(text[9]) + DigitValue(text[10])
         IN  IF m < 1 \/ m > 12 \/ d < 1 \/ d > DaysIn(m, y) THEN NoDate
             ELSE [ok |-> TRUE, year |-> y, month |-> m, day |-> d]

\* Time.Before on two parsed dates
DateBefore(a, b) ==
    \/ a.year < b.year
    \/ a.year = b.year /\ a.month < b.month
    \/ a.year = b.year /\ a.month = b.month /\ a.day < b.day

\* OrderInput.Validate.  The upper limit of payout_cents, 10^11, lies above
\* every integer of the model: no payout of the model exceeds it.
OrderError(o) ==
    IF o.ID = "" THEN "order id is required"
    ELSE IF o.Payout <= 0 THEN "payout_cents must be positive"
    ELSE IF o.WeightLbs <= 0 THEN "weight_lbs must be positive"
    ELSE IF o.WeightLbs > 1000000 THEN "weight_lbs exceeds maximum allowed value"
    ELSE IF o.VolumeCuft <= 0 THEN "volume_cuft must be positive"
    ELSE IF o.VolumeCuft > 100000 THEN "volume_cuft exceeds maximum allowed value"
    ELSE IF o.Origin = "" \/ o.Destination = ""
    THEN "origin and destination are required"
    ELSE IF Len(o.Origin) > 200 \/ Len(o.Destination) > 200
    THEN "origin and destination must be less than 200 characters"
    ELSE IF Len(o.ID) > 100 THEN "order id must be less than 100 characters"
    ELSE LET pickup == ParseDate(o.PickupDate)
             delivery == ParseDate(o.DeliveryDate)
         IN  IF ~pickup.ok THEN "invalid pickup_date format (expected YYYY-MM-DD)"
             ELSE IF ~delivery.ok
             THEN "invalid delivery_date format (expected YYYY-MM-DD)"
             ELSE IF DateBefore(delivery, pickup)
             THEN "delivery_date cannot be before pickup_date"
             ELSE ""

\* the loop of OptimizeRequest.Validate over the orders: at each order, first
\* the test of its identifier against those of the orders before it, then
\* its own Validate; the error of the first order that fails, or ""
OrdersError(os) ==
    LET seen(i) == \E j \in 1..(i - 1) : os[j].ID = os[i].ID
        bad == {i \in 1..Len(os) : seen(i) \/ OrderError(os[i]) # ""}
    IN  IF bad = {} THEN ""
        ELSE LET first == CHOOSE i \in bad : \A j \in bad : i <= j
             IN  IF seen(first) THEN "duplicate order id" ELSE "order"

\* OptimizeRequest.Validate: the error it returns, or "" for none
RequestError(t, os, c) ==
    IF t.ID = "" THEN "truck id is required"
    ELSE IF t.MaxWeightLbs <= 0 THEN "truck max_weight_lbs must be positive"
    ELSE IF t.MaxWeightLbs > 1000000 THEN "truck max_weight_lbs exceeds maximum allowed value"
    ELSE IF t.MaxVolumeCuft <= 0 THEN "truck max_volume_cuft must be positive"
    ELSE IF t.MaxVolumeCuft > 100000 THEN "truck max_volume_cuft exceeds maximum allowed value"
    ELSE IF Len(os) = 0 THEN "orders list cannot be empty"
    ELSE IF Len(os) > 22 THEN "orders list cannot exceed 22 items for optimal solution"
    ELSE LET err == OrdersError(os)
         IN  IF err # "" THEN err
             ELSE IF c # NoConfig /\ ConfigError(c) # "" THEN "optimization_config"
             ELSE ""

(***************************************************************************)
(* float64.  The service computes its scores and percentages in float64;   *)
(* the build is for amd64 (Dockerfile), where the compiler rounds after     *)
(* every operation and fuses none.  A non-negative float64 is a record     *)
(* [m, e] of value m * 2^e: m is zero, or has exactly 53 bits, and is      *)
(* written as four limbs of 14 bits, the least significant first.  Every   *)
(* operation rounds its exact result to the nearest such value, ties to    *)
(* the even mantissa.  The values of the model stay far from the           *)
(* subnormals and from the overflow of float64, which are left out.        *)
(***************************************************************************)
LimbBase == 2^14

\* the number of bits of 0 <= n < 2^31
RECURSIVE BitLenInt(_)
BitLenInt(n) ==
    IF n = 0 THEN 0
    ELSE IF n < 256 THEN 1 + BitLenInt(n \div 2)
    ELSE 8 + BitLenInt(n \div 256)

\* the i-th limb of the natural number a, zero beyond its length
BigLimb(a, i) == IF i >= 1 /\ i <= Len(a) THEN a[i] ELSE 0

RECURSIVE BigBitLen(_)
BigBitLen(a) ==
    IF a = <<>> THEN 0
    ELSE IF a[Len(a)] = 0 THEN BigBitLen(SubSeq(a, 1, Len(a) - 1))
    ELSE 14 * (Len(a) - 1) + BitLenInt(a[Len(a)])

\* the four lowest limbs of a * 2^d
BigShiftLeft(a, d) ==
    LET k == d \div 14
        lo == 2^(d % 14)
        hi == 2^(14 - (d % 14))
    IN  <<(BigLimb(a, 1 - k) % hi) * lo + BigLimb(a, 0 - k) \div hi,
          (BigLimb(a, 2 - k) % hi) * lo + BigLimb(a, 1 - k) \div hi,
          (BigLimb(a, 3 - k) % hi) * lo + BigLimb(a, 2 - k) \div hi,
          (BigLimb(a, 4 - k) % hi) * lo + BigLimb(a, 3 - k) \div hi>>

\* the five lowest limbs of a \div 2^d
BigShiftRight(a, d) ==
    LET k == d \div 14
        lo == 2^(d % 14)
        hi == 2^(14 - (d % 14))
    IN  <<BigLimb(a, k + 1) \div lo + (BigLimb(a, k + 2) % lo) * hi,
          BigLimb(a, k + 2) \div lo + (BigLimb(a, k + 3) % lo) * hi,
          BigLimb(a, k + 3) \div lo + (BigLimb(a, k + 4) % lo) * hi,
          BigLimb(a, k + 4) \div lo + (BigLimb(a, k + 5) % lo) * hi,
          BigLimb(a, k + 5) \div lo + (BigLimb(a, k + 6) % lo) * hi>>

\* a % 2^d is not zero
BigLowBits(a, d) ==
    \/ \E i \in 1..Len(a) : i <= d \div 14 /\ a[i] # 0
    \/ BigLimb(a, d \div 14 + 1) % 2^(d % 14) # 0

\* a + b + c, for a and b of the same number of limbs
RECURSIVE BigAdd(_, _, _)
BigAdd(a, b, c) ==
    IF a = <<>> THEN (IF c = 0 THEN <<>> ELSE <<c>>)
    ELSE <<(Head(a) + Head(b) + c) % LimbBase>>
           \o BigAdd(Tail(a), Tail(b), (Head(a) + Head(b) + c) \div LimbBase)

\* the product of two numbers of four limbs
BigMul(a, b) ==
    LET c1 == a[1] * b[1]
        c2 == a[1] * b[2] + a[2] * b[1] + c1 \div LimbBase
        c3 == a[1] * b[3] + a[2] * b[2] + a[3] * b[1] + c2 \div LimbBase
        c4 == a[1] * b[4] + a[2] * b[3] + a[3] * b[2] + a[4] * b[1] + c3 \div LimbBase
        c5 == a[2] * b[4] + a[3] * b[3] + a[4] * b[2] + c4 \div LimbBase
        c6 == a[3] * b[4] + a[4] * b[3] + c5 \div LimbBase
        c7 == a[4] * b[4] + c6 \div LimbBase
    IN  <<c1 % LimbBase, c2 % LimbBase, c3 % LimbBase, c4 % LimbBase,
          c5 % LimbBase, c6 % LimbBase, c7 % LimbBase, c7 \div LimbBase>>

\* a < 2^31 as an integer
RECURSIVE BigToInt(_)
BigToInt(a) == IF a = <<>> THEN 0 ELSE Head(a) + LimbBase * BigToInt(Tail(a))

FZero == [m |-> <<0, 0, 0, 0>>, e |-> 0]

\* q + 1 for q of 54 bits, the carry kept in the fourth limb
BigNext(q) ==
    LET c1 == q[1] + 1
        c2 == q[2] + c1 \div LimbBase
        c3 == q[3] + c2 \div LimbBase
    IN  <<c1 % LimbBase, c2 % LimbBase, c3 % LimbBase, q[4] + c3 \div LimbBase>>

\* r * 2^e as a float64, for r of 54 bits, or of 55 after a carry: the bit
\* after the mantissa is dropped
FPack(r, e) ==
    IF r[4] >= 2^12 THEN [m |-> <<0, 0, 0, 2^10>>, e |-> e + 2]
    ELSE [m |-> SubSeq(BigShiftRight(r, 1), 1, 4), e |-> e + 1]

\* the float64 nearest to x, for q * 2^e <= x < (q + 1) * 2^e, where q holds
\* the 53 bits of the mantissa and the bit after them, and x is q * 2^e
\* unless below; ties go to the even mantissa
FNearest(q, e, below) ==
    FPack(IF Head(q) % 2 = 1 /\ (below \/ (Head(q) \div 2) % 2 = 1)
          THEN BigNext(q) ELSE q, e)

\* FRound for a of len bits
FRoundLen(a, e, sticky, len) ==
    IF len = 0 THEN FZero
    ELSE IF len <= 53 THEN [m |-> BigShiftLeft(a, 53 - len), e |-> e + len - 53]
    ELSE FNearest(BigShiftRight(a, len - 54), e + len - 54,
                  sticky \/ BigLowBits(a, len - 54))

\* the float64 nearest to x, for a * 2^e <= x < (a + 1) * 2^e, where x is
\* a * 2^e unless sticky; a has at least 55 bits when sticky
FRound(a, e, sticky) == FRoundLen(a, e, sticky, BigBitLen(a))

\* float64(n), 0 <= n < 2^31
FFromInt(n) ==
    FRound(<<n % LimbBase, (n \div LimbBase) % LimbBase, n \div (LimbBase * LimbBase)>>,
           0, FALSE)

FMul(x, y) ==
    IF x = FZero \/ y = FZero THEN FZero
    ELSE FRound(BigMul(x.m, y.m), x.e + y.e, FALSE)

\* the sum, from the two mantissas with one limb more below them, the one
\* of the smaller exponent moved right
FAdd(x, y) ==
    IF x = FZero THEN y
    ELSE IF y = FZero THEN x
    ELSE LET hi == IF x.e >= y.e THEN x ELSE y
             lo == IF x.e >= y.e THEN y ELSE x
             d == hi.e - lo.e
         IN  IF d > 64 THEN hi
             ELSE FRound(BigAdd(<<0>> \o hi.m, BigShiftRight(<<0>> \o lo.m, d), 0),
                         hi.e - 14, BigLowBits(<<0>> \o lo.m, d))

\* x / 2
FHalf(x) == IF x = FZero THEN x ELSE [x EXCEPT !.e = @ - 1]

\* n more bits of the quotient r / b, r < b, taken c at a time after the
\* bits acc, and the remainder after them
RECURSIVE DivDigits(_, _, _, _, _)
DivDigits(r, b, c, n, acc) ==
    IF n = 0 THEN [q |-> acc, r |-> r]
    ELSE IF r = 0 THEN [q |-> acc * 2^n, r |-> 0]
    ELSE DivDigits((r * 2^c) % b, b, c, n - c, acc * 2^c + (r * 2^c) \div b)

\* the first n limbs of the fraction r / b, r < b, the least significant
\* first, and the remainder after them
RECURSIVE DivLimbs(_, _, _, _)
DivLimbs(r, b, c, n) ==
    IF n = 0 THEN [limbs |-> <<>>, r |-> r]
    ELSE LET first == DivDigits(r, b, c, 14, 0)
             rest == DivLimbs(first.r, b, c, n - 1)
         IN  [limbs |-> rest.limbs \o <<first.q>>, r |-> rest.r]

\* float64(a) / float64(b), 0 <= a < 2^31, 0 < b < 2^30: the quotient of
\* two integers that float64 holds exactly, by long division with as many
\* bits to a step as the remainder leaves room for
FDivInt(a, b) ==
    LET c == IF b < 2^17 THEN 14 ELSE IF b < 2^24 THEN 7 ELSE IF b < 2^29 THEN 2 ELSE 1
        n == IF a >= b THEN 4 ELSE 7
        frac == DivLimbs(a % b, b, c, n)
        whole == a \div b
    IN  FRound(frac.limbs \o <<whole % LimbBase, (whole \div LimbBase) % LimbBase,
                               whole \div (LimbBase * LimbBase)>>,
               -14 * n, frac.r # 0)

\* int(x), for x < 2^31
FTrunc(x) ==
    IF x.e >= 0 THEN BigToInt(BigShiftLeft(x.m, x.e))
    ELSE BigToInt(BigShiftRight(x.m, -x.e))

\* the float64 constants of the service
F100 == FFromInt(100)

F1000 == FFromInt(1000)

F10000 == FFromInt(10000)

FOneHalf == FDivInt(1, 2)

\* the weights of the configurations and of the weight vectors, which the
\* model counts in tenths: 0.0, 0.1, ... 1.0
FTenths == [k \in 0..10 |-> FDivInt(k, 10)]

(***************************************************************************)
(* service: OptimizerService.  The optimizer field of the service is the   *)
(* hybrid dispatcher (NewOptimizerService).                                *)
(***************************************************************************)
serviceOptimizer == "hybrid"

\* roundToTwoDecimals(value), in hundredths: int(value*100 + 0.5); the
\* division by 100 that follows is the reading of the hundredths
roundToTwoDecimals(value) == FTrunc(FAdd(FMul(value, F100), FOneHalf))

selectOptimizer(c) ==
    IF c = NoConfig \/ c.Algorithm = "auto" THEN serviceOptimizer
    ELSE CASE c.Algorithm = "dp" -> "dp"
           [] c.Algorithm = "backtracking" -> "backtracking"
           [] c.Algorithm = "greedy" -> "greedy"
           [] OTHER -> serviceOptimizer

preprocessOrders(t, os) == FilterFeasibleOrders(t, os)

\* Money(revenueWeight*revenue + utilizationWeight*utilization*10000) of one
\* order, the weights in tenths
WeightedPayout(t, o, rw, uw) ==
    LET revenue == FFromInt(o.Payout)
        utilization == FHalf(FAdd(FDivInt(o.WeightLbs, t.MaxWeightLbs),
                                  FDivInt(o.VolumeCuft, t.MaxVolumeCuft)))
        score == FAdd(FMul(FTenths[rw], revenue),
                      FMul(FMul(FTenths[uw], utilization), F10000))
    IN  FTrunc(score)

\* the loop of optimizeWithWeights over the copy: each order with its
\* weighted payout
RECURSIVE weightedOrders(_, _, _, _)
weightedOrders(t, os, rw, uw) ==
    IF os = <<>> THEN <<>>
    ELSE <<[Head(os) EXCEPT !.Payout = WeightedPayout(t, Head(os), rw, uw)]>>
           \o weightedOrders(t, Tail(os), rw, uw)

optimizeWithWeights(t, os, rw, uw) ==
    Optimize(serviceOptimizer, t, weightedOrders(t, os, rw, uw))

IDsOf(os) == [i \in 1..Len(os) |-> os[i].ID]

\* (float64(total) / float64(capacity)) * 100, with the guard of the capacity
UtilizationFloat(total, capacity) ==
    IF capacity > 0 THEN FMul(FDivInt(total, capacity), F100) ELSE FZero

\* utilization percent, in hundredths of a percent
UtilizationPercent(total, capacity) ==
    roundToTwoDecimals(UtilizationFloat(total, capacity))

buildResponse(t, res) ==
    [Error |-> "",
     TruckID |-> t.ID,
     SelectedOrderIDs |-> IDsOf(res.SelectedOrders),
     TotalPayoutCents |-> res.TotalPayout,
     TotalWeightLbs |-> res.TotalWeight,
     TotalVolumeCuft |-> res.TotalVolume,
     UtilizationWeightPercent |-> UtilizationPercent(res.TotalWeight, t.MaxWeightLbs),
     UtilizationVolumePercent |-> UtilizationPercent(res.TotalVolume, t.MaxVolumeCuft)]

ErrorResponse(msg) == [Error |-> "validation failed: " \o msg]

\* the scalarized path of OptimizeLoad is taken
Scalarized(c) ==
    c # NoConfig /\ (c.RevenueWeight # 10 \/ c.UtilizationWeight # 0)

\* the OptimizationResult OptimizeLoad obtains for a valid request; c as it
\* leaves Validate
OptimizeLoadResult(t, os, c) ==
    LET pre == preprocessOrders(t, os)
        optimizer == selectOptimizer(c)
    IN  IF Scalarized(c)
        THEN optimizeWithWeights(t, pre, c.RevenueWeight, c.UtilizationWeight)
        ELSE Optimize(optimizer, t, pre)

(***************************************************************************)
(* service: the Pareto frontier.                                           *)
(***************************************************************************)
ParetoWeights == <<[revenue |-> 10, utilization |-> 0],
                   [revenue |-> 8, utilization |-> 2],
                   [revenue |-> 6, utilization |-> 4],
                   [revenue |-> 4, utilization |-> 6],
                   [revenue |-> 2, utilization |-> 8]>>

\* the key of the seen map: the identifiers, each followed by a comma
RECURSIVE SolutionKey(_)
SolutionKey(sel) ==
    IF sel = <<>> THEN "" ELSE Head(sel).ID \o "," \o SolutionKey(Tail(sel))

\* score := w.revenue*float64(result.TotalPayout) +
\*          w.utilization*(weightUtil+volumeUtil)*1000
ParetoScore(payout, weightUtil, volumeUtil, w) ==
    FAdd(FMul(FTenths[w.revenue], FFromInt(payout)),
         FMul(FMul(FTenths[w.utilization], FAdd(weightUtil, volumeUtil)), F1000))

\* the ParetoSolution appended for a result; the percentages and the score
\* in hundredths
ParetoSolution(t, res, w) ==
    LET weightUtil == UtilizationFloat(res.TotalWeight, t.MaxWeightLbs)
        volumeUtil == UtilizationFloat(res.TotalVolume, t.MaxVolumeCuft)
    IN  [OrderIDs |-> IDsOf(res.SelectedOrders),
         TotalPayoutCents |-> res.TotalPayout,
         TotalWeightLbs |-> res.TotalWeight,
         TotalVolumeCuft |-> res.TotalVolume,
         UtilizationWeightPercent |-> roundToTwoDecimals(weightUtil),
         UtilizationVolumePercent |-> roundToTwoDecimals(volumeUtil),
         Score |-> roundToTwoDecimals(ParetoScore(res.TotalPayout, weightUtil,
                                                  volumeUtil, w))]

\* the loop over the weight vectors, from the k-th on
RECURSIVE ParetoLoop(_, _, _, _, _, _)
ParetoLoop(t, os, maxSolutions, k, solutions, seen) ==
    IF k > Len(ParetoWeights) THEN solutions
    ELSE
        LET w == ParetoWeights[k]
            res == optimizeWithWeights(t, os, w.revenue, w.utilization)
            key == SolutionKey(res.SelectedOrders)
        IN  IF key \in seen
            THEN ParetoLoop(t, os, maxSolutions, k + 1, solutions, seen)
            ELSE LET sols == Append(solutions, ParetoSolution(t, res, w))
                 IN  IF Len(sols) >= maxSolutions THEN sols
                     ELSE ParetoLoop(t, os, maxSolutions, k + 1, sols, seen \cup {key})

\* sol2 dominates sol1, as filterParetoOptimal tests it
Dominates(sol2, sol1) ==
    /\ sol2.TotalPayoutCents >= sol1.TotalPayoutCents
    /\ sol2.UtilizationWeightPercent >= sol1.UtilizationWeightPercent
    /\ sol2.UtilizationVolumePercent >= sol1.UtilizationVolumePercent
    /\ \/ sol2.TotalPayoutCents > sol1.TotalPayoutCents
       \/ sol2.UtilizationWeightPercent > sol1.UtilizationWeightPercent
       \/ sol2.UtilizationVolumePercent > sol1.UtilizationVolumePercent

\* a filter that compares a solution with the earlier ones only
ParetoKeptEarlier(solutions) ==
    {i \in 1..Len(solutions) :
        ~\E j \in 1..(i - 1) : Dominates(solutions[j], solutions[i])}

\* the positions of the solutions that filterParetoOptimal keeps
ParetoKept(solutions) ==
    {i \in 1..Len(solutions) :
        ~\E j \in 1..Len(solutions) : i # j /\ Dominates(solutions[j], solutions[i])}

RECURSIVE KeepFrom(_, _, _)
KeepFrom(solutions, kept, i) ==
    IF i > Len(solutions) THEN <<>>
    ELSE IF i \in kept THEN <<solutions[i]>> \o KeepFrom(solutions, kept, i + 1)
    ELSE KeepFrom(solutions, kept, i + 1)

filterParetoOptimal(solutions) == KeepFrom(solutions, ParetoKept(solutions), 1)

GetParetoOptimalSolutions(t, os, maxSolutions) ==
    filterParetoOptimal(ParetoLoop(t, os, maxSolutions, 1, <<>>, {}))

(***************************************************************************)
(* State.                                                                  *)
(*   truck, orders  the inputs of the calls                                *)
(*   op             the operation that ran last ("none" before any)        *)
(*   result         the OptimizationResult the last solve returned         *)
(*   bt             the fields of the BacktrackingOptimizer instance       *)
(*   config         the configuration of the last OptimizeLoad, as it      *)
(*                  leaves Validate                                        *)
(*   maxSolutions   the count passed to the last GetParetoOptimalSolutions *)
(*   response       the response of the last OptimizeLoad                  *)
(*   solutions      the list the last GetParetoOptimalSolutions returned   *)
(*   instance       the kind of the optimizer instance that concurrent     *)
(*                  calls share ("none" when no calls run concurrently)    *)
(*   calls          the concurrent calls of Optimize on that instance:     *)
(*                  inputs, position, recursion stack and returned result  *)
(*   arrays         the backing arrays that the slices of the instance's   *)
(*                  fields and of the returned results name                *)
(*   checker        the constraint checker variant the last checker call   *)
(*                  was made on ("none" when no checker call is modelled)  *)
(*   verdict        the boolean the last checker call returned             *)
(*   cache          the cache field of the DPOptimizer instance            *)
(*   sweep          the position and the tables of a DP sweep under way    *)
(***************************************************************************)
VARIABLES truck, orders, op, result, bt, config, maxSolutions, response, solutions,
          instance, calls, arrays, checker, verdict, cache, sweep

vars == <<truck, orders, op, result, bt, config, maxSolutions, response, solutions,
          instance, calls, arrays, checker, verdict, cache, sweep>>

inputs == <<truck, orders>>
serviceVars == <<config, maxSolutions, response, solutions>>
concurrentVars == <<instance, calls, arrays>>
checkerVars == <<checker, verdict>>
dpVars == <<cache, sweep>>

NoResponse == [Error |-> "none"]

\* the fields of the instance being b
InitOutputsWith(b) ==
    /\ op = "none"
    /\ result = EmptyResult
    /\ bt = b
    /\ config = NoConfig
    /\ maxSolutions = 0
    /\ response = NoResponse
    /\ solutions = <<>>

InitOutputs == InitOutputsWith(BTZero)

\* no backing array is modelled
NoArrays == <<>>

NoCalls ==
    /\ instance = "none"
    /\ calls = <<>>
    /\ arrays = NoArrays

\* the cache of a DPOptimizer as NewDPOptimizer makes it: an empty map
EmptyCache == <<>>

\* no sweep of the DP is under way
NoSweep == [pc |-> "none"]

NoChecker ==
    /\ checker = "none"
    /\ verdict = FALSE

InitDP ==
    /\ cache = EmptyCache
    /\ sweep = NoSweep

Init ==
    /\ truck \in Trucks
    /\ orders \in OrderLists
    /\ InitOutputs
    /\ NoCalls
    /\ NoChecker
    /\ InitDP

DPOptimizerOptimize ==
    /\ op' = "dp"
    /\ result' = DPOptimize(truck, orders)
    /\ UNCHANGED <<inputs, checkerVars, dpVars, bt, serviceVars, concurrentVars>>

BacktrackingOptimizerOptimize ==
    /\ op' = "backtracking"
    /\ bt' = BacktrackingFields(truck, orders)
    /\ result' = BacktrackingOptimize(truck, orders)
    /\ UNCHANGED <<inputs, checkerVars, dpVars, serviceVars, concurrentVars>>

GreedyOptimizerOptimize ==
    /\ op' = "greedy"
    /\ result' = GreedyOptimize(truck, orders)
    /\ UNCHANGED <<inputs, checkerVars, dpVars, bt, serviceVars, concurrentVars>>

HybridOptimizerOptimize ==
    /\ op' = "hybrid"
    /\ result' = HybridOptimize(truck, orders)
    /\ UNCHANGED <<inputs, checkerVars, dpVars, bt, serviceVars, concurrentVars>>

Next ==
    \/ DPOptimizerOptimize
    \/ BacktrackingOptimizerOptimize
    \/ GreedyOptimizerOptimize
    \/ HybridOptimizerOptimize

Spec == Init /\ [][Next]_vars

(***************************************************************************)
(* The hybrid dispatcher on lists around maxDPSize.  A long list holds two *)
(* orders of the input domain followed by orders heavier than every truck, *)
(* which FilterFeasibleOrders removes inside the delegate; the dispatcher  *)
(* counts the orders it is passed, before any filter.                      *)
(***************************************************************************)
OversizeBody ==
    [Payout |-> 1000, WeightLbs |-> 5, VolumeCuft |-> 1, Origin |-> "A",
     Destination |-> "C", IsHazmat |-> FALSE]

LongOrderLists ==
    {[i \in 1..n |-> MkOrder(OrderIDs[i],
                             IF i = 1 THEN b1 ELSE IF i = 2 THEN b2 ELSE OversizeBody)]
        : n \in {maxDPSize, maxDPSize + 1}, b1 \in OrderBodies, b2 \in OrderBodies}

InitHybrid ==
    /\ truck \in Trucks
    /\ orders \in OrderLists \cup LongOrderLists
    /\ InitOutputs
    /\ NoCalls
    /\ NoChecker
    /\ InitDP

NextHybrid == HybridOptimizerOptimize

SpecHybrid == InitHybrid /\ [][NextHybrid]_vars

(***************************************************************************)
(* The optimizers on lists of which no two orders can be combined: the     *)
(* lists of the input domain, and lists of maxDPSize + 1 orders with a     *)
(* route each, which the hybrid dispatcher hands to the greedy optimizer.  *)
(* In a long list the first and the last order vary, between a light and a *)
(* heavy body; the orders between them are of middle weight and the lower  *)
(* payout.  The DP optimizer, whose tables have 2^n entries, is run on the *)
(* lists of up to MaxOrders orders only.                                   *)
(***************************************************************************)
\* an origin for every position of a list
SoloOrigins == [i \in 1..(maxDPSize + 1) |-> "A" \o OrderIDs[i]]

SoloBodies ==
    [Payout : PayoutValues, WeightLbs : {1, 4}, VolumeCuft : {1},
     Origin : {"A"}, Destination : Destinations, IsHazmat : {FALSE}]

SoloFiller ==
    [Payout |-> 1000, WeightLbs |-> 2, VolumeCuft |-> 1, Origin |-> "A",
     Destination |-> "C", IsHazmat |-> FALSE]

\* the order at position i of a long list: body b on the route of position i
SoloOrder(i, b) == MkOrder(OrderIDs[i], [b EXCEPT !.Origin = SoloOrigins[i]])

SoloOrderLists ==
    {[i \in 1..(maxDPSize + 1) |->
         SoloOrder(i, IF i = 1 THEN b1 ELSE IF i = maxDPSize + 1 THEN b2 ELSE SoloFiller)]
        : b1 \in SoloBodies, b2 \in SoloBodies}

InitSolo ==
    /\ truck \in Trucks
    /\ orders \in OrderLists \cup SoloOrderLists
    /\ InitOutputs
    /\ NoCalls
    /\ NoChecker
    /\ InitDP

\* DPOptimizer.Optimize on a list of up to MaxOrders orders
DPOptimizerOptimizeShort ==
    /\ Len(orders) <= MaxOrders
    /\ DPOptimizerOptimize

NextSolo ==
    \/ DPOptimizerOptimizeShort
    \/ BacktrackingOptimizerOptimize
    \/ GreedyOptimizerOptimize
    \/ HybridOptimizerOptimize

SpecSolo == InitSolo /\ [][NextSolo]_vars

(***************************************************************************)
(* The optimizers on trucks tight enough that orders of the input domain   *)
(* exceed the weight capacity, the volume capacity, or both.               *)
(***************************************************************************)
TightCapacities == {<<1, 1>>, <<1, 2>>, <<2, 1>>}

TightTrucks ==
    {[ID |-> "t1", MaxWeightLbs |-> c[1], MaxVolumeCuft |-> c[2]] : c \in TightCapacities}

InitDegenerate ==
    /\ truck \in TightTrucks
    /\ orders \in OrderLists
    /\ InitOutputs
    /\ NoCalls
    /\ NoChecker
    /\ InitDP

SpecDegenerate == InitDegenerate /\ [][Next]_vars

(***************************************************************************)
(* DPOptimizer.Optimize step by step: one step per iteration of the outer  *)
(* loop over masks and of the inner loop over orders.  sweep holds the     *)
(* locals of the call: the filtered orders, incompatibleMask, the four     *)
(* tables, and the loop variables mask and i.                              *)
(***************************************************************************)
SweepAt(pc, os, inc, tbl, mask, i) ==
    [pc |-> pc, orders |-> os, incompatibleMask |-> inc, tbl |-> tbl, mask |-> mask, i |-> i]

\* maxStates := 1 << n
maxStates(os) == 2 ^ Len(os)

\* the two early returns: no orders, or none left by the filter
DPReturnEmpty ==
    /\ op = "none"
    /\ sweep = NoSweep
    /\ Len(orders) = 0 \/ Len(FilterFeasibleOrders(truck, orders)) = 0
    /\ op' = "dp"
    /\ result' = EmptyResult
    /\ UNCHANGED <<inputs, checkerVars, dpVars, bt, serviceVars, concurrentVars>>

\* filter, incompatibleMask, the tables, dpValid[0] = true, mask := 0
DPBegin ==
    /\ op = "none"
    /\ sweep = NoSweep
    /\ Len(orders) # 0
    /\ LET os == FilterFeasibleOrders(truck, orders) IN
        /\ Len(os) # 0
        /\ sweep' = SweepAt("outer", os, incompatibleMask(os), DPInitTable(Len(os)), 0, 0)
    /\ UNCHANGED <<inputs, checkerVars, cache, op, result, bt, serviceVars, concurrentVars>>

\* if !dpValid[mask] { continue }
DPSkipMask ==
    /\ sweep.pc = "outer"
    /\ sweep.mask < maxStates(sweep.orders)
    /\ ~sweep.tbl.dpValid[sweep.mask]
    /\ sweep' = [sweep EXCEPT !.mask = sweep.mask + 1]
    /\ UNCHANGED <<inputs, checkerVars, cache, op, result, bt, serviceVars, concurrentVars>>

\* a reachable mask: i := 0
DPEnterMask ==
    /\ sweep.pc = "outer"
    /\ sweep.mask < maxStates(sweep.orders)
    /\ sweep.tbl.dpValid[sweep.mask]
    /\ sweep' = [sweep EXCEPT !.pc = "inner", !.i = 0]
    /\ UNCHANGED <<inputs, checkerVars, cache, op, result, bt, serviceVars, concurrentVars>>

\* one iteration of the inner loop, i++
DPInnerStep ==
    /\ sweep.pc = "inner"
    /\ sweep.i < Len(sweep.orders)
    /\ sweep' = [sweep EXCEPT
                    !.tbl = DPInner(truck, sweep.orders, sweep.incompatibleMask,
                                    sweep.tbl, sweep.mask, sweep.i),
                    !.i = sweep.i + 1]
    /\ UNCHANGED <<inputs, checkerVars, cache, op, result, bt, serviceVars, concurrentVars>>

\* the inner loop is over, mask++
DPLeaveMask ==
    /\ sweep.pc = "inner"
    /\ sweep.i >= Len(sweep.orders)
    /\ sweep' = [sweep EXCEPT !.pc = "outer", !.mask = sweep.mask + 1, !.i = 0]
    /\ UNCHANGED <<inputs, checkerVars, cache, op, result, bt, serviceVars, concurrentVars>>

\* the sweep is over: the scan for the best mask, and the result
DPReturn ==
    /\ sweep.pc = "outer"
    /\ sweep.mask >= maxStates(sweep.orders)
    /\ LET best == DPBest(sweep.tbl, Len(sweep.orders), 0, <<0, 0>>) IN
        result' = OptimizationResult(extractOrders(best[2], sweep.orders), best[1],
                                     sweep.tbl.dpWeight[best[2]], sweep.tbl.dpVolume[best[2]])
    /\ op' = "dp"
    /\ sweep' = [sweep EXCEPT !.pc = "done"]
    /\ UNCHANGED <<inputs, checkerVars, cache, bt, serviceVars, concurrentVars>>

NextSweep ==
    \/ DPReturnEmpty
    \/ DPBegin
    \/ DPSkipMask
    \/ DPEnterMask
    \/ DPInnerStep
    \/ DPLeaveMask
    \/ DPReturn

SpecSweep == Init /\ [][NextSweep]_vars

(***************************************************************************)
(* The constraint checkers called directly.  The orders carry a pickup     *)
(* date, held as a day number (ToDomain parses dates without a time of     *)
(* day), and origins and destinations that contain the separator of the    *)
(* route key.  StrictConstraintChecker embeds DefaultConstraintChecker and  *)
(* defines CanCombine only: ValidateOrderSet called on a strict checker is *)
(* the promoted method of the embedded default checker, whose receiver is  *)
(* the default checker, so the CanCombine it calls is the default one.     *)
(***************************************************************************)
CheckerOrigins == {"A", "A->B"}
CheckerDestinations == {"C", "B->C"}
PickupDays == {0, 1, 2}

CheckerOrderBodies ==
    [Origin : CheckerOrigins, Destination : CheckerDestinations,
     IsHazmat : BOOLEAN, PickupDate : PickupDays]

CheckerOrder(id, b) ==
    [ID |-> id, Payout |-> 1000, WeightLbs |-> 1, VolumeCuft |-> 1,
     Origin |-> b.Origin, Destination |-> b.Destination, IsHazmat |-> b.IsHazmat,
     PickupDate |-> b.PickupDate]

CheckerOrderLists ==
    UNION {{[i \in 1..n |-> CheckerOrder(OrderIDs[i], bs[i])]
               : bs \in [1..n -> CheckerOrderBodies]}
           : n \in 0..MaxOrders}

CheckerKinds == {"default", "strict"}

\* StrictConstraintChecker.CanCombine
StrictCanCombine(order1, order2) ==
    IF ~CanCombine(order1, order2) THEN FALSE
    ELSE LET daysDiff == order1.PickupDate - order2.PickupDate
             absDiff == IF daysDiff < 0 THEN -daysDiff ELSE daysDiff
         IN  absDiff <= 1

\* CanCombine called on a checker of the given kind
CheckerCanCombine(kind, order1, order2) ==
    IF kind = "strict" THEN StrictCanCombine(order1, order2)
    ELSE CanCombine(order1, order2)

\* ValidateOrderSet called on a checker of the given kind: both kinds run
\* DefaultConstraintChecker.ValidateOrderSet
CheckerValidateOrderSet(kind, os) == ValidateOrderSet(os)

\* the checker calls take no truck
CheckerTruck == [ID |-> "t1", MaxWeightLbs |-> 2, MaxVolumeCuft |-> 2]

InitChecker ==
    /\ truck = CheckerTruck
    /\ orders \in CheckerOrderLists
    /\ InitOutputs
    /\ NoCalls
    /\ checker \in CheckerKinds
    /\ verdict = FALSE
    /\ InitDP

CallCanCombine ==
    /\ Len(orders) >= 2
    /\ op' = "CanCombine"
    /\ verdict' = CheckerCanCombine(checker, orders[1], orders[2])
    /\ UNCHANGED <<inputs, checker, dpVars, result, bt, serviceVars, concurrentVars>>

CallValidateOrderSet ==
    /\ op' = "ValidateOrderSet"
    /\ verdict' = CheckerValidateOrderSet(checker, orders)
    /\ UNCHANGED <<inputs, checker, dpVars, result, bt, serviceVars, concurrentVars>>

NextChecker ==
    \/ CallCanCombine
    \/ CallValidateOrderSet

SpecChecker == InitChecker /\ [][NextChecker]_vars

(***************************************************************************)
(* Calls made one after another on one optimizer instance, each with its   *)
(* own orders.  The fields of the instance (bt of a BacktrackingOptimizer, *)
(* cache of a DPOptimizer) are carried from one call to the next.          *)
(* DPOptimizer.Optimize neither reads nor writes cache.  calls holds the   *)
(* call completed before the last one, with the result it returned.        *)
(***************************************************************************)
SequentialTruck == [ID |-> "t1", MaxWeightLbs |-> 2, MaxVolumeCuft |-> 2]

SequentialOrderLists ==
    OrderListsOver({b \in OrderBodies :
                       b.Origin = "A" /\ b.VolumeCuft = 1 /\ ~b.IsHazmat})

\* the record of a completed call that returned res
CompletedCall(res) == [pc |-> "done", ret |-> res]

InitSequential ==
    /\ truck = SequentialTruck
    /\ orders = <<>>
    /\ InitOutputs
    /\ instance \in OptimizerOps
    /\ calls = <<>>
    /\ arrays = NoArrays
    /\ NoChecker
    /\ InitDP

SequentialOptimize(os) ==
    /\ orders' = os
    /\ op' = instance
    /\ IF instance = "backtracking"
       THEN /\ bt' = BacktrackingFieldsFrom(bt, truck, os)
            /\ result' = OptimizationResult(bt'.bestOrders, bt'.bestPayout,
                                            bt'.bestWeight, bt'.bestVolume)
       ELSE /\ bt' = bt
            /\ result' = Optimize(instance, truck, os)
    /\ calls' = IF op = "none" THEN <<>> ELSE <<CompletedCall(result)>>
    /\ UNCHANGED <<truck, checkerVars, dpVars, serviceVars, instance, arrays>>

ClearCache ==
    /\ instance = "dp"
    /\ op' = "ClearCache"
    /\ cache' = EmptyCache
    /\ UNCHANGED <<inputs, checkerVars, sweep, result, bt, serviceVars, concurrentVars>>

NextSequential ==
    \/ \E os \in SequentialOrderLists : SequentialOptimize(os)
    \/ ClearCache

SpecSequential == InitSequential /\ [][NextSequential]_vars

(***************************************************************************)
(* The service: OptimizeLoad and GetParetoOptimalSolutions on a request.   *)
(* The service keeps no state from one request to the next; a behaviour    *)
(* of SpecService is one request.                                          *)
(***************************************************************************)
ConfigInputs ==
    {NoConfig} \cup
    {OptimizationConfig(o, 0, 0, a) : o \in ValidObjectives, a \in ValidAlgorithms}

InitService ==
    /\ truck \in Trucks
    /\ orders \in ServiceOrderLists
    /\ InitOutputs
    /\ NoCalls
    /\ NoChecker
    /\ InitDP

OptimizeLoad(c) ==
    LET err == RequestError(truck, orders, c) IN
    /\ op = "none"
    /\ op' = "OptimizeLoad"
    /\ IF err # ""
       THEN /\ config' = IF err = "optimization_config" THEN ConfigDefaulted(c) ELSE c
            /\ response' = ErrorResponse(err)
            /\ result' = EmptyResult
       ELSE LET cfg == IF c = NoConfig THEN c ELSE ConfigDefaulted(c) IN
            /\ config' = cfg
            /\ result' = OptimizeLoadResult(truck, orders, cfg)
            /\ response' = buildResponse(truck, result')
    /\ UNCHANGED <<inputs, checkerVars, dpVars, bt, maxSolutions, solutions,
                   concurrentVars>>

ParetoSolutions(n) ==
    /\ op = "none"
    /\ op' = "Pareto"
    /\ maxSolutions' = n
    /\ solutions' = GetParetoOptimalSolutions(truck, orders, n)
    /\ UNCHANGED <<inputs, checkerVars, dpVars, bt, result, config, response,
                   concurrentVars>>

NextService ==
    \/ \E c \in ConfigInputs : OptimizeLoad(c)
    \/ \E n \in 0..MaxSolutionsArg : ParetoSolutions(n)

SpecService == InitService /\ [][NextService]_vars

(***************************************************************************)
(* GetParetoOptimalSolutions on loads whose payouts are close to each      *)
(* other and large against the utilization term of the scalarization, so   *)
(* that the solves of successive weight vectors select different orders.   *)
(* An order's weight and volume are equal here.                            *)
(***************************************************************************)
ParetoPayouts == {197000, 199500, 200000}
ParetoSizes == {1, 2, 4}
ParetoTruck == [ID |-> "t1", MaxWeightLbs |-> 4, MaxVolumeCuft |-> 4]

ParetoOrderBodies ==
    {[Payout |-> p, WeightLbs |-> z, VolumeCuft |-> z, Origin |-> "A",
      Destination |-> "C", IsHazmat |-> h]
        : p \in ParetoPayouts, z \in ParetoSizes, h \in BOOLEAN}

\* the lists of at most k orders with bodies of the given set
OrderListsUpTo(bodies, k) ==
    UNION {{[i \in 1..n |-> MkOrder(OrderIDs[i], bs[i])] : bs \in [1..n -> bodies]}
           : n \in 0..k}

InitPareto ==
    /\ truck = ParetoTruck
    /\ orders \in OrderListsUpTo(ParetoOrderBodies, MaxOrders + 1)
    /\ InitOutputs
    /\ NoCalls
    /\ NoChecker
    /\ InitDP

NextPareto == \E n \in 0..MaxSolutionsArg : ParetoSolutions(n)

SpecPareto == InitPareto /\ [][NextPareto]_vars

(***************************************************************************)
(* Two calls of Optimize running concurrently on one optimizer instance.   *)
(* A step of a call is one statement that reads or writes a field of the   *)
(* instance, together with the call-local computation that follows it; the *)
(* steps of the two calls interleave in every order.  DPOptimizer,         *)
(* GreedyOptimizer and HybridOptimizer read and write no field of the      *)
(* instance during Optimize, so a call of theirs is one step.              *)
(*                                                                         *)
(* bestOrders and the SelectedOrders of a returned result are slices:      *)
(* they name a backing array of arrays, which the calls share.  make at    *)
(* line 288 writes the field; copy at line 289 reads the field again and   *)
(* then writes the elements, one step each and in increasing order, into   *)
(* the array the field named when it was read; the result of Optimize      *)
(* holds the slice the field holds at the return, not a copy.  An array    *)
(* that no slice names any more is given back.                             *)
(***************************************************************************)
MaxConcurrentOrders == 2

Calls == {1, 2}

ConcurrentTruck == [ID |-> "t1", MaxWeightLbs |-> 2, MaxVolumeCuft |-> 2]

\* the orders of the concurrent calls: one route, not hazardous, of volume
\* 1; light orders of either payout, and a heavy one of the lower payout
ConcurrentOrderBodies ==
    {b \in OrderBodies : /\ b.Origin = "A" /\ ~b.IsHazmat /\ b.VolumeCuft = 1
                         /\ (b.WeightLbs = 1 \/ b.Payout = 1000)}

ConcurrentOrderLists ==
    {os \in OrderListsOver(ConcurrentOrderBodies) : Len(os) \in 1..MaxConcurrentOrders}

\* the identifiers of the backing arrays: the field bestOrders and the
\* result of each call name at most one array each
ArrayIDs == 1..(Cardinality(Calls) + 1)

\* every array free
FreeArrays == [i \in ArrayIDs |-> <<>>]

\* the fields of an instance as NewBacktrackingOptimizer leaves them:
\* bestOrders is the nil slice
BTNew == BTFields(0, EmptySlice, 0, 0)

\* the result of a call that has not returned
NoResult == OptimizationResult(EmptySlice, 0, 0, 0)

Frame(index, currentOrders, payout, weight, volume, pc) ==
    [index |-> index, currentOrders |-> currentOrders, currentPayout |-> payout,
     currentWeight |-> weight, currentVolume |-> volume, pc |-> pc]

NewCall(t, os) ==
    [truck |-> t, input |-> os, orders |-> os, pc |-> "start", stack |-> <<>>,
     dst |-> EmptySlice, copied |-> 0, ret |-> NoResult]

InitConcurrent ==
    /\ truck = ConcurrentTruck
    /\ orders = <<>>
    /\ InitOutputsWith(BTNew)
    /\ NoChecker
    /\ InitDP
    /\ instance \in OptimizerOps
    /\ arrays = FreeArrays
    /\ \E os1, os2 \in ConcurrentOrderLists :
          /\ os1 # os2
          /\ calls = <<NewCall(ConcurrentTruck, os1), NewCall(ConcurrentTruck, os2)>>

\* the arrays that the field bestOrders of b, the results of the calls cs
\* and the destinations of their copies under way name
Referenced(b, cs) ==
    ({b.bestOrders.arr} \cup {cs[c].ret.SelectedOrders.arr : c \in DOMAIN cs}
                       \cup {cs[c].dst.arr : c \in DOMAIN cs}) \ {0}

\* arrs with the arrays that nothing names given back
Collected(arrs, b, cs) ==
    [i \in ArrayIDs |-> IF i \in Referenced(b, cs) THEN arrs[i] ELSE <<>>]

\* an array that nothing names
FreeArray(b, cs) ==
    CHOOSE i \in ArrayIDs \ Referenced(b, cs) :
        \A j \in ArrayIDs \ Referenced(b, cs) : i <= j

\* make([]domain.Order, n) in a free array: the slice, whose array holds n
\* zero orders
MakeSlice(b, cs, n) ==
    IF n = 0 THEN EmptySlice ELSE Slice(FreeArray(b, cs), n, n)

\* the number of elements copy(dst, src) writes
CopyLen(dst, src) == IF dst.len <= Len(src) THEN dst.len ELSE Len(src)

\* arrs after copy(dst, src) wrote its element of Go index k
CopyElem(arrs, dst, src, k) == [arrs EXCEPT ![dst.arr][k + 1] = src[k + 1]]

\* arrs with the slice sl made and holding elems
Stored(arrs, sl, elems) ==
    IF sl.len = 0 THEN arrs ELSE [arrs EXCEPT ![sl.arr] = elems]

\* the result of call c, its selected orders read from their array
ReturnedResult(c) ==
    [calls[c].ret EXCEPT !.SelectedOrders = SliceElems(arrays, @)]

Top(c) == calls[c].stack[Len(calls[c].stack)]

SetTopPc(stack, pc) == [stack EXCEPT ![Len(stack)] = [@ EXCEPT !.pc = pc]]

\* the return of the top frame to its caller: after the include branch the
\* caller recurses into the exclude branch, after the exclude branch it
\* returns in turn
RECURSIVE Unwind(_)
Unwind(stack) ==
    LET rest == SubSeq(stack, 1, Len(stack) - 1) IN
    IF rest = <<>> THEN rest
    ELSE LET f == rest[Len(rest)] IN
         IF f.pc = "included"
         THEN Append(SetTopPc(rest, "excluded"),
                     Frame(f.index + 1, f.currentOrders, f.currentPayout,
                           f.currentWeight, f.currentVolume, "check"))
         ELSE Unwind(rest)

\* the state of a call after the top frame returned
Returned(call, stack) ==
    LET st == Unwind(stack)
    IN  [call EXCEPT !.stack = st, !.pc = IF st = <<>> THEN "ret_orders" ELSE "run"]

\* Optimize of an optimizer that keeps no solve state in its fields; the
\* selection it returns is in an array of its own
StatelessOptimize(c) ==
    /\ instance \in {"dp", "greedy", "hybrid"}
    /\ calls[c].pc = "start"
    /\ \E res \in {Optimize(instance, calls[c].truck, calls[c].input)} :
       \E sl \in {MakeSlice(bt, calls, Len(res.SelectedOrders))} :
          /\ calls' = [calls EXCEPT ![c].pc = "done",
                                    ![c].ret = [res EXCEPT !.SelectedOrders = sl]]
          /\ arrays' = Stored(arrays, sl, res.SelectedOrders)
    /\ UNCHANGED <<inputs, checkerVars, dpVars, op, result, bt, serviceVars, instance>>

\* BacktrackingOptimizer.Optimize: the filter and the reset of the fields
BTReset(c) ==
    /\ instance = "backtracking"
    /\ \/ /\ calls[c].pc = "start"
          /\ bt' = [bt EXCEPT !.bestPayout = 0]
          /\ calls' = [calls EXCEPT ![c].pc = "reset_orders",
                          ![c].orders = FilterFeasibleOrders(calls[c].truck, calls[c].orders)]
          /\ arrays' = arrays
       \/ /\ calls[c].pc = "reset_orders"
          /\ bt' = [bt EXCEPT !.bestOrders = EmptySlice]
          /\ calls' = [calls EXCEPT ![c].pc = "reset_weight"]
          /\ arrays' = Collected(arrays, bt', calls)
       \/ /\ calls[c].pc = "reset_weight"
          /\ bt' = [bt EXCEPT !.bestWeight = 0]
          /\ calls' = [calls EXCEPT ![c].pc = "reset_volume"]
          /\ arrays' = arrays
       \/ /\ calls[c].pc = "reset_volume"
          /\ bt' = [bt EXCEPT !.bestVolume = 0]
          /\ calls' = [calls EXCEPT ![c].pc = "run",
                                    ![c].stack = <<Frame(0, <<>>, 0, 0, 0, "check")>>]
          /\ arrays' = arrays
    /\ UNCHANGED <<inputs, checkerVars, dpVars, op, result, serviceVars, instance>>

\* backtrack: the test currentPayout > b.bestPayout
BTCheckBest(c) ==
    /\ instance = "backtracking"
    /\ calls[c].pc = "run"
    /\ Top(c).pc = "check"
    /\ calls' = [calls EXCEPT ![c].stack =
                    SetTopPc(@, IF Top(c).currentPayout > bt.bestPayout
                                THEN "w_payout" ELSE "bound")]
    /\ UNCHANGED <<inputs, checkerVars, dpVars, op, result, bt, serviceVars, instance, arrays>>

\* backtrack: the statements that record the best solution: the write of
\* bestPayout, make, copy (its read of bestOrders, then a write for every
\* element), and the writes of bestWeight and bestVolume
BTWriteBest(c) ==
    /\ instance = "backtracking"
    /\ calls[c].pc = "run"
    /\ \/ /\ Top(c).pc = "w_payout"
          /\ bt' = [bt EXCEPT !.bestPayout = Top(c).currentPayout]
          /\ calls' = [calls EXCEPT ![c].stack = SetTopPc(@, "w_orders")]
          /\ arrays' = arrays
       \/ /\ Top(c).pc = "w_orders"
          /\ \E sl \in {MakeSlice(bt, calls, Len(Top(c).currentOrders))} :
                /\ bt' = [bt EXCEPT !.bestOrders = sl]
                /\ arrays' = Collected(Stored(arrays, sl, [i \in 1..sl.len |-> ZeroOrder]),
                                       bt', calls)
          /\ calls' = [calls EXCEPT ![c].stack = SetTopPc(@, "w_copy")]
       \/ /\ Top(c).pc = "w_copy"
          /\ bt' = bt
          /\ arrays' = arrays
          /\ calls' = IF CopyLen(bt.bestOrders, Top(c).currentOrders) = 0
                      THEN [calls EXCEPT ![c].stack = SetTopPc(@, "w_weight")]
                      ELSE [calls EXCEPT ![c].stack = SetTopPc(@, "w_elem"),
                                         ![c].dst = bt.bestOrders]
       \/ /\ Top(c).pc = "w_elem"
          /\ bt' = bt
          /\ calls' = IF calls[c].copied + 1 = CopyLen(calls[c].dst, Top(c).currentOrders)
                      THEN [calls EXCEPT ![c].stack = SetTopPc(@, "w_weight"),
                                         ![c].dst = EmptySlice, ![c].copied = 0]
                      ELSE [calls EXCEPT ![c].copied = @ + 1]
          /\ arrays' = Collected(CopyElem(arrays, calls[c].dst, Top(c).currentOrders,
                                          calls[c].copied),
                                 bt, calls')
       \/ /\ Top(c).pc = "w_weight"
          /\ bt' = [bt EXCEPT !.bestWeight = Top(c).currentWeight]
          /\ calls' = [calls EXCEPT ![c].stack = SetTopPc(@, "w_volume")]
          /\ arrays' = arrays
       \/ /\ Top(c).pc = "w_volume"
          /\ bt' = [bt EXCEPT !.bestVolume = Top(c).currentVolume]
          /\ calls' = [calls EXCEPT ![c].stack = SetTopPc(@, "bound")]
          /\ arrays' = arrays
    /\ UNCHANGED <<inputs, checkerVars, dpVars, op, result, serviceVars, instance>>

\* backtrack: the base case, the pruning test against b.bestPayout, and the
\* choice of the branch to recurse into
BTBranch(c) ==
    /\ instance = "backtracking"
    /\ calls[c].pc = "run"
    /\ Top(c).pc = "bound"
    /\ LET f == Top(c)
           os == calls[c].orders
           t == calls[c].truck
       IN  IF f.index >= Len(os)
           THEN calls' = [calls EXCEPT ![c] = Returned(@, calls[c].stack)]
           ELSE IF f.currentPayout + remainingPayout(os, f.index) <= bt.bestPayout
           THEN calls' = [calls EXCEPT ![c] = Returned(@, calls[c].stack)]
           ELSE LET order == os[f.index + 1]
                    newWeight == f.currentWeight + order.WeightLbs
                    newVolume == f.currentVolume + order.VolumeCuft
                    canFit == newWeight <= t.MaxWeightLbs /\ newVolume <= t.MaxVolumeCuft
                IN  IF canFit /\ CompatibleWithAll(order, f.currentOrders)
                    THEN calls' = [calls EXCEPT ![c].stack =
                             Append(SetTopPc(@, "included"),
                                    Frame(f.index + 1, Append(f.currentOrders, order),
                                          f.currentPayout + order.Payout,
                                          newWeight, newVolume, "check"))]
                    ELSE calls' = [calls EXCEPT ![c].stack =
                             Append(SetTopPc(@, "excluded"),
                                    Frame(f.index + 1, f.currentOrders, f.currentPayout,
                                          f.currentWeight, f.currentVolume, "check"))]
    /\ UNCHANGED <<inputs, checkerVars, dpVars, op, result, bt, serviceVars, instance, arrays>>

\* Optimize: the result is built from four reads of the fields; its
\* SelectedOrders is the slice bestOrders holds
BTReturn(c) ==
    /\ instance = "backtracking"
    /\ \/ /\ calls[c].pc = "ret_orders"
          /\ calls' = [calls EXCEPT ![c].pc = "ret_payout",
                                    ![c].ret.SelectedOrders = bt.bestOrders]
       \/ /\ calls[c].pc = "ret_payout"
          /\ calls' = [calls EXCEPT ![c].pc = "ret_weight",
                                    ![c].ret.TotalPayout = bt.bestPayout]
       \/ /\ calls[c].pc = "ret_weight"
          /\ calls' = [calls EXCEPT ![c].pc = "ret_volume",
                                    ![c].ret.TotalWeight = bt.bestWeight]
       \/ /\ calls[c].pc = "ret_volume"
          /\ calls' = [calls EXCEPT ![c].pc = "done",
                                    ![c].ret.TotalVolume = bt.bestVolume]
    /\ UNCHANGED <<inputs, checkerVars, dpVars, op, result, bt, serviceVars, instance, arrays>>

NextConcurrent ==
    \E c \in Calls :
        \/ StatelessOptimize(c)
        \/ BTReset(c)
        \/ BTCheckBest(c)
        \/ BTWriteBest(c)
        \/ BTBranch(c)
        \/ BTReturn(c)

SpecConcurrent == InitConcurrent /\ [][NextConcurrent]_vars

(***************************************************************************)
(* One call of BacktrackingOptimizer.Optimize on an instance of its own,   *)
(* statement by statement: the steps of a call above, with no second call. *)
(***************************************************************************)
TheCall == 1

InitBacktrack ==
    /\ truck \in Trucks
    /\ orders \in OrderLists
    /\ InitOutputsWith(BTNew)
    /\ NoChecker
    /\ InitDP
    /\ instance = "backtracking"
    /\ calls = <<NewCall(truck, orders)>>
    /\ arrays = FreeArrays

NextBacktrack ==
    \/ BTReset(TheCall)
    \/ BTCheckBest(TheCall)
    \/ BTWriteBest(TheCall)
    \/ BTBranch(TheCall)
    \/ BTReturn(TheCall)

SpecBacktrack == InitBacktrack /\ [][NextBacktrack]_vars

(***************************************************************************)
(* The three solvers on the input domain and on lists long enough for      *)
(* append to write in place: the first orders of such a list are fillers   *)
(* that bring the current selection to the first length below its          *)
(* capacity, the orders after them vary.  Backtracking runs on slices.     *)
(***************************************************************************)
\* the least length at which a slice grown by append from the empty slice
\* has room left: capacities go 1, 2, 4
FillerCount == GrownCap(GrownCap(GrownCap(0))) - 1

FillerBody ==
    [Payout |-> 1000, WeightLbs |-> 1, VolumeCuft |-> 1, Origin |-> "A",
     Destination |-> "C", IsHazmat |-> FALSE]

SliceBodies == {b \in OrderBodies : b.Origin = "A" /\ ~b.IsHazmat /\ b.VolumeCuft = 1}

SliceTruck == [ID |-> "t1", MaxWeightLbs |-> 5, MaxVolumeCuft |-> 8]

\* FillerCount fillers followed by at most k orders of the given bodies
FilledOrderLists(bodies, k) ==
    UNION {{[i \in 1..(FillerCount + n) |->
                MkOrder(OrderIDs[i], IF i <= FillerCount THEN FillerBody
                                     ELSE bs[i - FillerCount])]
            : bs \in [1..n -> bodies]} : n \in 0..k}

\* instance is the optimizer that was made; the filled lists are inputs of
\* the backtracking optimizer
InitSlices ==
    /\ instance \in {"dp", "greedy", "backtracking"}
    /\ calls = <<>>
    /\ arrays = NoArrays
    /\ \/ truck \in Trucks /\ orders \in OrderLists
       \/ /\ instance = "backtracking"
          /\ truck = SliceTruck
          /\ orders \in FilledOrderLists(SliceBodies, MaxOrders + 1)
    /\ InitOutputs
    /\ NoChecker
    /\ InitDP

OptimizeOnInstance ==
    /\ instance \in {"dp", "greedy"}
    /\ op' = instance
    /\ result' = Optimize(instance, truck, orders)
    /\ UNCHANGED <<inputs, checkerVars, dpVars, bt, serviceVars, concurrentVars>>

BacktrackingOptimizerOptimizeSlices ==
    /\ instance = "backtracking"
    /\ op' = "backtracking"
    /\ result' = BacktrackingOptimizeSlices(truck, orders)
    /\ bt' = BTFields(result'.TotalPayout, result'.SelectedOrders,
                      result'.TotalWeight, result'.TotalVolume)
    /\ UNCHANGED <<inputs, checkerVars, dpVars, serviceVars, concurrentVars>>

NextSlices ==
    \/ OptimizeOnInstance
    \/ BacktrackingOptimizerOptimizeSlices

SpecSlices == InitSlices /\ [][NextSlices]_vars

(***************************************************************************)
(* The solves on the memory of their caller.  The order list is passed as  *)
(* a slice, so the callee reads and could write the caller's backing       *)
(* array; the truck is passed by value.  Array 1 of the heap is the        *)
(* caller's array, the arrays after it are those a call makes.  A call     *)
(* returns the heap it leaves and its result; orders is the caller's       *)
(* array as the call leaves it.  A behaviour is one call.                  *)
(***************************************************************************)
CallerHeap(os) == <<os>>

CallerSlice(os) == Slice(1, Len(os), Len(os))

\* elems written to the elements of slice s
WriteElems(heap, s, elems) ==
    IF s.len = 0 THEN heap
    ELSE [heap EXCEPT ![s.arr] = SubSeq(elems, 1, s.len) \o SubSeq(@, s.len + 1, Len(@))]

\* FilterFeasibleOrders: make([]Order, 0, len(orders)), and an append for
\* every order kept
FilterFeasibleOrdersMem(heap, t, s) ==
    LET feasible == FilterFeasibleOrders(t, SliceElems(heap, s))
        arr == feasible \o [i \in 1..(s.len - Len(feasible)) |-> ZeroOrder]
    IN  [heap |-> Append(heap, arr), slice |-> Slice(Len(heap) + 1, Len(feasible), s.len)]

\* sorted := orders, with no make and copy
sortedShared(heap, s) == MakeCopyShared(heap, s)

\* sortByValueDensity: sorted := make(...); copy(sorted, orders)
sortedCopy(heap, s) == MakeCopy(heap, s)

\* sortByValueDensity: the copy, and the swaps in it
sortByValueDensityMem(heap, s) ==
    LET cp == sortedCopy(heap, s)
    IN  [heap |-> WriteElems(cp.heap, cp.slice,
                             sortByValueDensity(SliceElems(cp.heap, cp.slice))),
         slice |-> cp.slice]

\* the optimizer whose solve runs for an instance of the given kind
SolverOf(kind, n) ==
    IF kind = "hybrid" THEN (IF n <= maxDPSize THEN "dp" ELSE "greedy") ELSE kind

\* Optimize of an optimizer: every solver filters into an array of its own,
\* greedy then sorts a copy of that; the rest of a solve reads
OptimizeMem(kind, heap, t, s) ==
    LET f == FilterFeasibleOrdersMem(heap, t, s)
    IN  [heap |-> IF SolverOf(kind, s.len) = "greedy"
                  THEN sortByValueDensityMem(f.heap, f.slice).heap
                  ELSE f.heap,
         ret |-> Optimize(kind, t, SliceElems(heap, s))]

\* weighted := orders, with no make and copy
weightedShared(heap, s) == MakeCopyShared(heap, s)

\* optimizeWithWeights: weighted := make(...); copy(weighted, orders)
weightedCopy(heap, s) == MakeCopy(heap, s)

\* optimizeWithWeights: the copy, the payouts written to it, and the solve
optimizeWithWeightsMem(heap, t, s, rw, uw) ==
    LET cp == weightedCopy(heap, s)
        h == WriteElems(cp.heap, cp.slice,
                        weightedOrders(t, SliceElems(cp.heap, cp.slice), rw, uw))
    IN  OptimizeMem(serviceOptimizer, h, t, cp.slice)

\* the loop over the weight vectors, from the k-th on, heap threaded
RECURSIVE ParetoLoopMem(_, _, _, _, _, _, _)

\* the body of the loop for the k-th weight vector, after its solve left r
ParetoStepMem(r, t, s, maxN, k, found, seen) ==
    LET key == SolutionKey(r.ret.SelectedOrders)
    IN  IF key \in seen
        THEN ParetoLoopMem(r.heap, t, s, maxN, k + 1, found, seen)
        ELSE IF Len(found) + 1 >= maxN
        THEN [heap |-> r.heap, ret |-> Append(found, ParetoSolution(t, r.ret, ParetoWeights[k]))]
        ELSE ParetoLoopMem(r.heap, t, s, maxN, k + 1,
                           Append(found, ParetoSolution(t, r.ret, ParetoWeights[k])),
                           seen \cup {key})

ParetoLoopMem(heap, t, s, maxN, k, found, seen) ==
    IF k > Len(ParetoWeights) THEN [heap |-> heap, ret |-> found]
    ELSE ParetoStepMem(optimizeWithWeightsMem(heap, t, s, ParetoWeights[k].revenue,
                                              ParetoWeights[k].utilization),
                       t, s, maxN, k, found, seen)

\* the list a sweep collected, filtered
ParetoFilteredMem(r) == [heap |-> r.heap, ret |-> filterParetoOptimal(r.ret)]

GetParetoOptimalSolutionsMem(heap, t, s, maxN) ==
    ParetoFilteredMem(ParetoLoopMem(heap, t, s, maxN, 1, <<>>, {}))

\* what a call writes does not depend on the compatibility of the orders
MemoryOrderBodies == {b \in ServiceOrderBodies : ~b.IsHazmat}

\* the trucks that carry two pounds: on the larger one a sweep keeps two
\* solutions, on the smaller one it keeps one
MemoryTrucks == {t \in Trucks : t.MaxWeightLbs = 2}

InitMemory ==
    /\ truck \in MemoryTrucks
    /\ orders \in OrderListsOver(MemoryOrderBodies)
    /\ InitOutputs
    /\ NoCalls
    /\ NoChecker
    /\ InitDP

\* Optimize of an optimizer of the given kind, called with the caller's
\* slice; a backtracking optimizer is left with the fields of its best
\* solution
CallOptimize(kind) ==
    /\ op = "none"
    /\ \E r \in {OptimizeMem(kind, CallerHeap(orders), truck, CallerSlice(orders))} :
           /\ op' = kind
           /\ result' = r.ret
           /\ bt' = IF kind = "backtracking" THEN BacktrackingFields(truck, orders) ELSE bt
           /\ solutions' = <<>>
           /\ orders' = Head(r.heap)
           /\ truck' = truck
           /\ UNCHANGED <<checkerVars, dpVars, config, maxSolutions, response, concurrentVars>>

CallOptimizeWithWeights(w) ==
    /\ op = "none"
    /\ \E r \in {optimizeWithWeightsMem(CallerHeap(orders), truck, CallerSlice(orders),
                                         w.revenue, w.utilization)} :
           /\ op' = "optimizeWithWeights"
           /\ result' = r.ret
           /\ solutions' = <<>>
           /\ orders' = Head(r.heap)
           /\ truck' = truck
           /\ UNCHANGED <<checkerVars, dpVars, bt, config, maxSolutions, response, concurrentVars>>

CallGetParetoOptimalSolutions(n) ==
    /\ op = "none"
    /\ \E r \in {GetParetoOptimalSolutionsMem(CallerHeap(orders), truck, CallerSlice(orders), n)} :
           /\ op' = "Pareto"
           /\ maxSolutions' = n
           /\ solutions' = r.ret
           /\ result' = EmptyResult
           /\ orders' = Head(r.heap)
           /\ truck' = truck
           /\ UNCHANGED <<checkerVars, dpVars, bt, config, response, concurrentVars>>

NextMemory ==
    \/ \E kind \in OptimizerOps : CallOptimize(kind)
    \/ \E k \in DOMAIN ParetoWeights : CallOptimizeWithWeights(ParetoWeights[k])
    \/ \E n \in 0..MaxSolutionsArg : CallGetParetoOptimalSolutions(n)

SpecMemory == InitMemory /\ [][NextMemory]_vars

(***************************************************************************)
(* The selection problem, stated without the solvers.                      *)
(***************************************************************************)
RECURSIVE SetSum(_, _, _)
SetSum(os, S, field) ==
    IF S = {} THEN 0
    ELSE LET i == CHOOSE x \in S : TRUE
         IN  (CASE field = "payout" -> os[i].Payout
                [] field = "weight" -> os[i].WeightLbs
                [] field = "volume" -> os[i].VolumeCuft) + SetSum(os, S \ {i}, field)

\* the subsets of positions of os that are pairwise compatible and within
\* the capacity of truck t
FeasibleSubsets(t, os) ==
    {S \in SUBSET (1..Len(os)) :
        /\ \A i, j \in S : i # j => CanCombine(os[i], os[j])
        /\ SetSum(os, S, "weight") <= t.MaxWeightLbs
        /\ SetSum(os, S, "volume") <= t.MaxVolumeCuft}

MaxFeasiblePayout(t, os) ==
    LET F == FeasibleSubsets(t, os)
    IN  SetSum(os, CHOOSE S \in F : \A T \in F : SetSum(os, T, "payout") <= SetSum(os, S, "payout"),
               "payout")

PositivePayouts(os) == \A i \in 1..Len(os) : os[i].Payout > 0

\* C1: for orders with positive payouts, the total payout DPOptimizer.Optimize
\* returns is the maximum summed payout over all subsets of the orders that
\* are pairwise compatible and within the truck's weight and volume capacity.
C1_DPReturnsMaximum ==
    (op = "dp" /\ PositivePayouts(orders))
        => result.TotalPayout = MaxFeasiblePayout(truck, orders)

\* a DP solve of two orders, each fitting the truck alone, whose optimum is
\* one of them because the pair is infeasible
C1_Witness ==
    /\ op = "dp"
    /\ Len(orders) = 2
    /\ FilterFeasibleOrders(truck, orders) = orders
    /\ Len(result.SelectedOrders) = 1
    /\ FeasibleSubsets(truck, orders) # SUBSET (1..Len(orders))

\* C2: for orders with positive payouts, BacktrackingOptimizer.Optimize and
\* DPOptimizer.Optimize return the same total payout.
C2_BacktrackingEqualsDP ==
    (op = "backtracking" /\ PositivePayouts(orders))
        => result.TotalPayout = DPOptimize(truck, orders).TotalPayout

\* a backtracking solve of two orders, each fitting the truck alone, that
\* returns the more valuable one, which is the second of the list
C2_Witness ==
    /\ op = "backtracking"
    /\ Len(orders) = 2
    /\ FilterFeasibleOrders(truck, orders) = orders
    /\ result.SelectedOrders = <<orders[2]>>
    /\ orders[2].Payout > orders[1].Payout

\* C3: the total payout GreedyOptimizer.Optimize returns is at most the total
\* payout DPOptimizer.Optimize returns on the same input.
C3_GreedyAtMostDP ==
    op = "greedy" => result.TotalPayout <= DPOptimize(truck, orders).TotalPayout

\* a greedy solve that selects orders and is strictly below the DP optimum
C3_Witness ==
    /\ op = "greedy"
    /\ result.TotalPayout > 0
    /\ result.TotalPayout < DPOptimize(truck, orders).TotalPayout

\* C4: the selection every optimizer returns is within the truck's weight
\* and volume capacity and passes ValidateOrderSet.
C4_SelectionFeasible ==
    op \in OptimizerOps =>
        /\ SumWeight(result.SelectedOrders) <= truck.MaxWeightLbs
        /\ SumVolume(result.SelectedOrders) <= truck.MaxVolumeCuft
        /\ ValidateOrderSet(result.SelectedOrders)

\* a solve that selects an order and leaves out one that fits the truck alone
\* but is incompatible with the selected one
C4_Witness ==
    /\ op \in OptimizerOps
    /\ Len(result.SelectedOrders) >= 1
    /\ \E i \in 1..Len(orders) :
          /\ FilterFeasibleOrders(truck, <<orders[i]>>) # <<>>
          /\ ~CanCombine(orders[i], result.SelectedOrders[1])

(***************************************************************************)
(* Claims on the service.                                                  *)
(***************************************************************************)
\* the summed payout, in the request, of the orders with the given identifiers
RECURSIVE OriginalPayout(_)
OriginalPayout(ids) ==
    IF ids = <<>> THEN 0
    ELSE LET i == CHOOSE k \in 1..Len(orders) : orders[k].ID = Head(ids)
         IN  orders[i].Payout + OriginalPayout(Tail(ids))

\* C5: whenever scalarization is applied, the total payout reported by
\* OptimizeLoad, and by every solve of GetParetoOptimalSolutions, is the sum
\* of the original payouts of the selected orders.
C5_ReportedPayoutIsOriginal ==
    /\ (op = "OptimizeLoad" /\ response.Error = "" /\ Scalarized(config))
          => response.TotalPayoutCents = OriginalPayout(response.SelectedOrderIDs)
    /\ op = "Pareto"
          => \A k \in 1..Len(solutions) :
                solutions[k].TotalPayoutCents = OriginalPayout(solutions[k].OrderIDs)

\* the optimizer the algorithm field names
NamedOptimizer(c) ==
    IF c = NoConfig THEN "hybrid"
    ELSE CASE c.Algorithm = "dp" -> "dp"
           [] c.Algorithm = "backtracking" -> "backtracking"
           [] c.Algorithm = "greedy" -> "greedy"
           [] c.Algorithm = "auto" -> "hybrid"

\* the orders OptimizeLoad hands to the solve
SolvedOrders(t, os, c) ==
    IF Scalarized(c)
    THEN weightedOrders(t, preprocessOrders(t, os), c.RevenueWeight, c.UtilizationWeight)
    ELSE preprocessOrders(t, os)

\* C6: in OptimizeLoad the solve is performed by the optimizer the algorithm
\* field names, pure-revenue or scalarized: the result is the one that
\* optimizer returns on the orders being solved.
C6_NamedOptimizerSolves ==
    (op = "OptimizeLoad" /\ response.Error = "")
        => result = Optimize(NamedOptimizer(config), truck, SolvedOrders(truck, orders, config))

\* A dominates B: at least B on payout and both utilization percents, and
\* strictly greater on one
ClaimDominates(A, B) ==
    /\ A.TotalPayoutCents >= B.TotalPayoutCents
    /\ A.UtilizationWeightPercent >= B.UtilizationWeightPercent
    /\ A.UtilizationVolumePercent >= B.UtilizationVolumePercent
    /\ ~(/\ A.TotalPayoutCents = B.TotalPayoutCents
         /\ A.UtilizationWeightPercent = B.UtilizationWeightPercent
         /\ A.UtilizationVolumePercent = B.UtilizationVolumePercent)

\* C8: no solution of a list GetParetoOptimalSolutions returns dominates
\* another solution of that list.
C8_NoDominanceInList ==
    op = "Pareto" =>
        \A i, j \in 1..Len(solutions) : ~ClaimDominates(solutions[i], solutions[j])

\* a Pareto call that collects distinct solutions and returns two of them
C8_Witness ==
    /\ op = "Pareto"
    /\ Len(solutions) >= 2
    /\ solutions[1].TotalPayoutCents # solutions[2].TotalPayoutCents

\* C9: the list GetParetoOptimalSolutions returns has at most maxSolutions
\* entries, for every maxSolutions >= 0.
C9_AtMostMaxSolutions ==
    op = "Pareto" => Len(solutions) <= maxSolutions

Take(s, n) == IF n >= Len(s) THEN s ELSE SubSeq(s, 1, n)

\* the deduplicated solutions of all five weight vectors, dominance-filtered
FilteredAllFive(t, os) ==
    filterParetoOptimal(ParetoLoop(t, os, Len(ParetoWeights), 1, <<>>, {}))

\* C10: the list returned is the first maxSolutions entries of the
\* dominance-filtered list of the deduplicated solutions of all five weight
\* vectors.
C10_FilterBeforeTruncate ==
    op = "Pareto" => solutions = Take(FilteredAllFive(truck, orders), maxSolutions)

(***************************************************************************)
(* Claims on concurrent calls.                                             *)
(***************************************************************************)
\* C7: when two Optimize calls with different inputs run concurrently on one
\* instance of any optimizer, each call returns, under every interleaving, the
\* selection and totals it returns when run alone.
C7_ConcurrentCallsIndependent ==
    \A c \in DOMAIN calls :
        calls[c].pc = "done"
            => ReturnedResult(c) = Optimize(instance, calls[c].truck, calls[c].input)

(***************************************************************************)
(* Claims on the dispatcher and on degenerate inputs.                      *)
(***************************************************************************)
\* C11: HybridOptimizer.Optimize returns the result of DPOptimizer.Optimize
\* when it is passed at most 22 orders and the result of
\* GreedyOptimizer.Optimize when it is passed more than 22.
C11_HybridDispatch ==
    op = "hybrid" =>
        /\ Len(orders) <= 22 => result = DPOptimize(truck, orders)
        /\ Len(orders) > 22 => result = GreedyOptimize(truck, orders)

\* a dispatch on 23 orders that returns a greedy selection worth less than an
\* order of the list that fits the truck alone
C11_Witness ==
    /\ op = "hybrid"
    /\ Len(orders) = 23
    /\ result.TotalPayout > 0
    /\ \E i \in 1..Len(orders) :
          /\ FilterFeasibleOrders(truck, <<orders[i]>>) # <<>>
          /\ orders[i].Payout > result.TotalPayout

\* every order alone exceeds the truck's weight or volume capacity (true of
\* the empty list)
NoOrderFits(t, os) ==
    \A i \in 1..Len(os) :
        os[i].WeightLbs > t.MaxWeightLbs \/ os[i].VolumeCuft > t.MaxVolumeCuft

\* C12: for every optimizer, when the order list is empty or every order
\* alone exceeds the truck's weight or volume capacity, Optimize returns an
\* empty selection with total payout, weight and volume 0.
C12_DegenerateInputEmpty ==
    (op \in OptimizerOps /\ NoOrderFits(truck, orders))
        => /\ result.SelectedOrders = <<>>
           /\ result.TotalPayout = 0
           /\ result.TotalWeight = 0
           /\ result.TotalVolume = 0

\* a backtracking solve of two orders, one too heavy and one too large, that
\* returns the empty selection
C12_Witness ==
    /\ op = "backtracking"
    /\ Len(orders) = 2
    /\ orders[1].WeightLbs > truck.MaxWeightLbs
    /\ orders[1].VolumeCuft <= truck.MaxVolumeCuft
    /\ orders[2].VolumeCuft > truck.MaxVolumeCuft
    /\ orders[2].WeightLbs <= truck.MaxWeightLbs
    /\ result = EmptyResult

\* two or more orders, each fitting the truck alone, no two of them
\* combinable
PairwiseIncompatible(t, os) ==
    /\ Len(os) >= 2
    /\ FilterFeasibleOrders(t, os) = os
    /\ \A i, j \in 1..Len(os) : i # j => ~CanCombine(os[i], os[j])

MaxSinglePayout(os) ==
    CHOOSE p \in {os[i].Payout : i \in 1..Len(os)} :
        \A i \in 1..Len(os) : os[i].Payout <= p

C14_EmptyRequestSucceeds ==
    (op = "OptimizeLoad" /\ orders = <<>>)
        => /\ response.Error = ""
           /\ response.SelectedOrderIDs = <<>>
           /\ response.TotalPayoutCents = 0

(***************************************************************************)
(* Claims on the constraint checkers.                                      *)
(***************************************************************************)
\* C15: for the default checker, CanCombine(a, b) is true if and only if the
\* two orders have the same origin, the same destination and the same hazmat
\* flag, origins and destinations being arbitrary non-empty strings.
C15_CanCombineIffSamePairing ==
    (op = "CanCombine" /\ checker = "default")
        => verdict = (/\ orders[1].Origin = orders[2].Origin
                      /\ orders[1].Destination = orders[2].Destination
                      /\ orders[1].IsHazmat = orders[2].IsHazmat)

\* C16: for each checker variant, ValidateOrderSet called on that checker is
\* true if and only if that checker's CanCombine holds for every pair of
\* distinct positions of the list.
C16_ValidateIffPairwise ==
    op = "ValidateOrderSet"
        => verdict = (\A i, j \in 1..Len(orders) :
                         i # j => CheckerCanCombine(checker, orders[i], orders[j]))

(***************************************************************************)
(* Claims on calls made one after another.                                 *)
(***************************************************************************)
\* C17: in any sequence of Optimize calls (and ClearCache calls on the DP
\* optimizer) on one instance, the selection and totals a call returns depend
\* only on that call's truck and orders: they are the ones a fresh instance
\* returns for these inputs, whatever calls came before.
C17_SequentialCallsIndependent ==
    (instance \in OptimizerOps /\ op # "none")
        => result = Optimize(instance, truck, orders)

\* a backtracking call that returns a selection worth less than the one the
\* call before it on the same instance returned
C17_Witness ==
    /\ instance = "backtracking"
    /\ op = "backtracking"
    /\ calls # <<>>
    /\ calls[1].ret.TotalPayout > result.TotalPayout
    /\ result.TotalPayout > 0

(***************************************************************************)
(* Claims on the order of the Pareto list.                                 *)
(***************************************************************************)
\* C18: the solutions GetParetoOptimalSolutions returns are sorted by score:
\* the score is monotone along the returned list, non-increasing or
\* non-decreasing.
C18_SortedByScore ==
    op = "Pareto" =>
        \/ \A k \in 1..(Len(solutions) - 1) : solutions[k].Score >= solutions[k + 1].Score
        \/ \A k \in 1..(Len(solutions) - 1) : solutions[k].Score <= solutions[k + 1].Score

(***************************************************************************)
(* Claims on the tables of the DP sweep.                                   *)
(***************************************************************************)
\* the sweep has its tables
Sweeping == sweep.pc \in {"outer", "inner", "done"}

\* the subset of os that mask names is pairwise compatible and within capacity
FeasibleSubset(t, os, mask) ==
    LET sub == extractOrders(mask, os) IN
    /\ \A a \in 1..Len(sub) : \A b \in 1..Len(sub) : a # b => CanCombine(sub[a], sub[b])
    /\ SumWeight(sub) <= t.MaxWeightLbs
    /\ SumVolume(sub) <= t.MaxVolumeCuft

\* the step-by-step sweep returns what DPOptimize computes
SweepAgreesWithOptimize == op = "dp" => result = DPOptimize(truck, orders)

\* C19: at the end of the sweep the reachable flag of every mask is true if
\* and only if the subset is pairwise compatible and within the capacity of
\* the truck, and at no point of the sweep is an infeasible subset marked
\* reachable.
C19_ReachableIffFeasible ==
    Sweeping =>
        \A m \in 0..(maxStates(sweep.orders) - 1) :
            /\ sweep.tbl.dpValid[m] => FeasibleSubset(truck, sweep.orders, m)
            /\ sweep.pc = "done" =>
                   (sweep.tbl.dpValid[m] <=> FeasibleSubset(truck, sweep.orders, m))

\* a finished sweep over two orders that fit alone and not together
C19_Witness ==
    /\ sweep.pc = "done"
    /\ Len(sweep.orders) = 2
    /\ sweep.tbl.dpValid[1]
    /\ sweep.tbl.dpValid[2]
    /\ ~sweep.tbl.dpValid[3]
    /\ ~FeasibleSubset(truck, sweep.orders, 3)

\* the four table entries of a mask
Entry(tbl, m) == <<tbl.dpValid[m], tbl.dpPayout[m], tbl.dpWeight[m], tbl.dpVolume[m]>>

\* one step of the sweep: the mask stays or grows by one, and no entry at
\* an index up to the mask being visited changes
SweepStepInOrder ==
    (Sweeping /\ sweep' # sweep) =>
        /\ sweep'.mask \in {sweep.mask, sweep.mask + 1}
        /\ \A m \in 0..(maxStates(sweep.orders) - 1) :
               m <= sweep.mask => Entry(sweep'.tbl, m) = Entry(sweep.tbl, m)

\* C20: the sweep visits masks in increasing order and writes only entries
\* whose index is strictly greater than the mask being visited, so the
\* entries of a mask are final when it is visited and never change after.
C20_VisitedEntriesFinal == [][SweepStepInOrder]_vars

\* mask 2 is being visited and the entry of mask 3 is already written
C20_Witness ==
    /\ sweep.pc = "inner"
    /\ sweep.mask = 2
    /\ sweep.tbl.dpValid[3]

(***************************************************************************)
(* Claims on the pruning of the backtracking search.                       *)
(***************************************************************************)
\* the frame on top of the stack of the call is at the pruning test
AtBound ==
    /\ instance = "backtracking"
    /\ calls[TheCall].pc = "run"
    /\ Top(TheCall).pc = "bound"
    /\ Top(TheCall).index < Len(calls[TheCall].orders)

\* the pruning test discards the branch of the frame on top
Discards ==
    /\ AtBound
    /\ Top(TheCall).currentPayout
           + remainingPayout(calls[TheCall].orders, Top(TheCall).index) <= bt.bestPayout

\* the sets S of positions from Go index `index` on that extend the
\* selection cur to a pairwise compatible load within the capacity of t
FeasibleExtensions(t, os, cur, index) ==
    {S \in SUBSET ((index + 1)..Len(os)) :
        /\ \A i, j \in S : i # j => CanCombine(os[i], os[j])
        /\ \A i \in S : CompatibleWithAll(os[i], cur)
        /\ SumWeight(cur) + SetSum(os, S, "weight") <= t.MaxWeightLbs
        /\ SumVolume(cur) + SetSum(os, S, "volume") <= t.MaxVolumeCuft}

\* C21: when backtrack discards a branch, no feasible extension of the
\* current selection by orders at indices >= index has a payout strictly
\* greater than the best payout recorded at that moment.
C21_PruningSound ==
    Discards =>
        \A S \in FeasibleExtensions(calls[TheCall].truck, calls[TheCall].orders,
                                    Top(TheCall).currentOrders, Top(TheCall).index) :
            Top(TheCall).currentPayout + SetSum(calls[TheCall].orders, S, "payout")
                <= bt.bestPayout

\* a branch is discarded that has a feasible extension by a further order
C21_Witness ==
    /\ Discards
    /\ \E S \in FeasibleExtensions(calls[TheCall].truck, calls[TheCall].orders,
                                    Top(TheCall).currentOrders, Top(TheCall).index) :
           S # {}

(***************************************************************************)
(* Claims on the choice among selections of equal payout.                  *)
(***************************************************************************)
\* the positions of os that mask names, bit i standing for position i + 1
MaskPositions(os, mask) == {i \in 1..Len(os) : HasBit(mask, i - 1)}

\* the orders of os that mask names, by increasing position
MaskOrders(os, mask) ==
    LET P == MaskPositions(os, mask)
        kth(k) == CHOOSE i \in P : Cardinality({j \in P : j < i}) = k - 1
    IN  [k \in 1..Cardinality(P) |-> os[kth(k)]]

\* the masks over os whose subset is feasible and of the greatest payout
BestMasks(t, os) ==
    LET F == {m \in 0..(maxStates(os) - 1) : FeasibleSubset(t, os, m)}
    IN  {m \in F : \A m2 \in F :
            SetSum(os, MaskPositions(os, m2), "payout")
                <= SetSum(os, MaskPositions(os, m), "payout")}

LowestBestMask(t, os) ==
    CHOOSE m \in BestMasks(t, os) : \A m2 \in BestMasks(t, os) : m <= m2

\* C22: when several reachable masks share the maximum payout,
\* DPOptimizer.Optimize returns the orders of the numerically lowest such
\* mask over the filtered orders, in increasing index order.
C22_LowestMaskOnTies ==
    op = "dp" =>
        LET os == FilterFeasibleOrders(truck, orders)
        IN  result.SelectedOrders = MaskOrders(os, LowestBestMask(truck, os))

\* the DP has returned and two masks share the maximum payout
C22_Witness ==
    /\ op = "dp"
    /\ Cardinality(BestMasks(truck, FilterFeasibleOrders(truck, orders))) >= 2
    /\ result.TotalPayout > 0

(***************************************************************************)
(* Claims on the consistency of a result.                                  *)
(***************************************************************************)
\* the selected orders are distinct orders of the list os, and the totals
\* are the sums over the selected orders
ConsistentResult(res, os) ==
    /\ \A k \in 1..Len(res.SelectedOrders) :
           \E i \in 1..Len(os) : os[i] = res.SelectedOrders[k]
    /\ \A k, l \in 1..Len(res.SelectedOrders) :
           k # l => res.SelectedOrders[k] # res.SelectedOrders[l]
    /\ res.TotalPayout = SumPayout(res.SelectedOrders)
    /\ res.TotalWeight = SumWeight(res.SelectedOrders)
    /\ res.TotalVolume = SumVolume(res.SelectedOrders)

\* backtracking on slices returns what backtracking on values returns
SlicesAgreeWithValues ==
    op = "backtracking" => result = BacktrackingOptimize(truck, orders)

\* C23: the result of DP, backtracking and greedy is internally consistent:
\* the selected orders are distinct orders of the input and the three
\* totals are the sums over exactly the selected orders; for backtracking
\* although both branches append to the same current-selection slice.
C23_ResultConsistent ==
    op \in {"dp", "backtracking", "greedy"} => ConsistentResult(result, orders)

\* backtracking returned the fillers and the order after the first varying
\* one: the slot append wrote in place was written a second time
C23_Witness ==
    /\ op = "backtracking"
    /\ truck = SliceTruck
    /\ Len(orders) >= FillerCount + 2
    /\ result.SelectedOrders =
           [k \in 1..(FillerCount + 1) |->
               IF k <= FillerCount THEN orders[k] ELSE orders[FillerCount + 2]]

(***************************************************************************)
(* Claims on the inputs of a solve.                                        *)
(***************************************************************************)
\* a call leaves the caller's truck and order list as they were, and the
\* Pareto list is the one computed with every solve on the payouts of the
\* list as passed in
InputsKept ==
    /\ truck' = truck
    /\ orders' = orders
    /\ op' = "Pareto" => solutions' = GetParetoOptimalSolutions(truck, orders, maxSolutions')

\* C24: Optimize of every optimizer, optimizeWithWeights and
\* GetParetoOptimalSolutions leave the truck and the order list passed in
\* unchanged, order of elements and payouts included, so each scalarized
\* solve of the Pareto computation starts from the original payouts.
C24_InputsUnchanged == [][InputsKept]_vars

\* a Pareto computation returned two solutions, the second from a solve
\* with a later weight vector, and the payouts of the caller's list are in
\* the input domain
C24_Witness ==
    /\ op = "Pareto"
    /\ Len(solutions) >= 2
    /\ \A i \in 1..Len(orders) : orders[i].Payout \in PayoutValues

====
